---- MODULE Spec2Model ----
(***************************************************************************)
(* METAR monitor: the alert router (src/src/router/lambda_function.py),    *)
(* the station/owner administration it depends on                          *)
(* (src/src/admin/lambda_function.py) and the stores they share.           *)
(*                                                                         *)
(* One router invocation is a sequence of steps, one per call that leaves  *)
(* the process (table read, table write, SNS publish); the local           *)
(* computation that follows a call belongs to the same step.  Router       *)
(* invocations run in slots; a slot keeps the result of its last           *)
(* invocation until the next event is delivered to it.                     *)
(***************************************************************************)
EXTENDS Integers, Sequences, FiniteSets, TLC

VARIABLES
    stations,     \* STATIONS_TABLE: station_id -> item
    owners,       \* OWNERS_TABLE: owner_id -> item
    alert_state,  \* ALERT_STATE_TABLE: <<station_id, alert_type>> -> item
    now,          \* the wall clock read by now_epoch(), in seconds
    sns,          \* the messages accepted by sns.publish, in order
    inv,          \* router invocation slots
    runs,         \* RUNS_TABLE: the items written by write_run, in order
    metars,       \* METARS_TABLE: <<station_id, observation_time>> -> item
    bus,          \* the entries accepted by events.put_events, in order
    col,          \* the collector invocation
    call,         \* a helper function under evaluation: arguments, value
    admins,       \* ADMINS_TABLE: username -> item
    adm           \* the admin invocation: request, table calls, response

\* the state outside the router, its tables, its topic and the clock
elsewhere == <<runs, metars, bus, col, call, admins, adm>>

vars == <<stations, owners, alert_state, now, sns, inv, elsewhere>>

(***************************************************************************)
(* Bounds of the model.                                                    *)
(***************************************************************************)
\* the clock is observed at 0, 30, 60, ... minutes, up to this many half hours,
\* and one minute after the last of them
MaxHalfHours == 2
\* collector invocations in a run of CollectorSpec
MaxRuns == 1
\* router invocations that may be in flight at once in RaceSpec
NumRacers == 3
\* messages published in a run of OutageSpec, where a refused marker write
\* lets every redelivery publish again
MaxNotifications == 2

(***************************************************************************)
(* Program constants.                                                      *)
(***************************************************************************)
SecondsPerMinute == 60
\* STALE_THRESHOLD_HOURS as the deployment sets it; the collector does not read it
StaleThresholdHours == 2
MarkerRetentionSeconds == 30 * 24 * 3600

HalfHour == 30 * SecondsPerMinute
HalfHours == {h * HalfHour : h \in 0..MaxHalfHours}
Times == HalfHours \cup {MaxHalfHours * HalfHour + SecondsPerMinute}

(***************************************************************************)
(* Strings.  str.upper(), str.lower() and str.strip() on the strings the   *)
(* model uses.                                                             *)
(***************************************************************************)
Upper(s) ==
    CASE s = "kjwy" -> "KJWY"
      [] s = "error" -> "ERROR"
      [] s = "empty" -> "EMPTY"
      [] s = "ok" -> "OK"
      [] OTHER -> s

Lower(s) ==
    CASE s = "ERROR" -> "error"
      [] s = "EMPTY" -> "empty"
      [] s = "KJWY" -> "kjwy"
      [] s = "Both" -> "both"
      [] s = "LOGIN" -> "login"
      [] s = "Owners" -> "owners"
      [] s = "Bearer" -> "bearer"
      [] OTHER -> s

Strip(s) ==
    CASE s = " o1" -> "o1"
      [] s = " " -> ""
      [] s = " admin" -> "admin"
      [] OTHER -> s

(***************************************************************************)
(* Tables.  A table is a function from the keys present to their items;    *)
(* get_item on an absent key yields no Item, which the getters turn into   *)
(* the empty dict.                                                         *)
(***************************************************************************)
NoItem == <<>>

GetItem(table, key) == IF key \in DOMAIN table THEN table[key] ELSE NoItem

PutItem(table, key, item) ==
    [k \in DOMAIN table \cup {key} |-> IF k = key THEN item ELSE table[k]]

DeleteItem(table, key) == [k \in DOMAIN table \ {key} |-> table[k]]

StationIds == {"KJWY"}
\* the station ids of the collector's runs, in the order sort() gives them
StationOrder == <<"KJWY", "KSLC">>
OwnerIds == {"o1"}
TopicArns == {"arn:o1"}
CooldownChoices == {30, 60}

\* enabled is the collector's switch; the router does not read it
StationItems ==
    [station_id : StationIds,
     enabled : {TRUE},
     owner_id : OwnerIds \cup {""},
     notify_on : {"error", "empty", "both", "weekly"},
     cooldown_minutes : CooldownChoices,
     alerts_enabled : BOOLEAN]

OwnerItems ==
    [owner_id : OwnerIds,
     topic_arn : TopicArns \cup {""},
     alerts_enabled : BOOLEAN]

\* every table over the given keys whose items carry their own key
TablesOf(keys, items, key_name) ==
    UNION {{t \in [present -> items] : \A k \in present : t[k][key_name] = k}
              : present \in SUBSET keys}

(***************************************************************************)
(* Router: pure helpers.                                                   *)
(***************************************************************************)
\* parse_notify_on with error as the policy of an unrecognised value
parse_notify_on_default_error(value) ==
    LET v == Lower(IF value = "" THEN "both" ELSE value)
    IN  IF v \in {"error", "empty", "both"} THEN v ELSE "error"

parse_notify_on(value) ==
    LET v == Lower(IF value = "" THEN "both" ELSE value)
    IN  IF v \in {"error", "empty", "both"} THEN v ELSE "both"

should_notify(status, notify_on) ==
    IF status \notin {"error", "empty"} THEN FALSE
    ELSE IF notify_on = "both" THEN TRUE
    ELSE status = notify_on

get_station(station_id) == GetItem(stations, station_id)

get_owner(owner_id) == GetItem(owners, owner_id)

\* WithinWindow without the conversion of cooldown_minutes to seconds
WithinWindowMinutes(elapsed, cooldown_minutes) ==
    elapsed < cooldown_minutes

\* WithinWindow with a cooldown below one minute taken as one minute
WithinWindowAtLeastOneMinute(elapsed, cooldown_minutes) ==
    elapsed < (IF cooldown_minutes < 1 THEN 1 ELSE cooldown_minutes) * SecondsPerMinute

\* WithinWindow with the boundary inside the window
WithinWindowInclusive(elapsed, cooldown_minutes) ==
    elapsed <= cooldown_minutes * SecondsPerMinute

\* the comparison of in_cooldown, on the clock reading and the marker's epoch
WithinWindow(elapsed, cooldown_minutes) ==
    elapsed < cooldown_minutes * SecondsPerMinute

\* in_cooldown answering for any marker of the station
in_cooldown_any_class(station_id, alert_type, cooldown_minutes) ==
    \E key \in DOMAIN alert_state :
        /\ key[1] = station_id
        /\ WithinWindow(now - alert_state[key].last_notified_epoch, cooldown_minutes)

\* in_cooldown answering for the marker of any station with the same status
in_cooldown_any_station(station_id, alert_type, cooldown_minutes) ==
    \E key \in DOMAIN alert_state :
        /\ key[2] = alert_type
        /\ WithinWindow(now - alert_state[key].last_notified_epoch, cooldown_minutes)

in_cooldown(station_id, alert_type, cooldown_minutes) ==
    LET item == GetItem(alert_state, <<station_id, alert_type>>)
    IN  IF item = NoItem THEN FALSE
        ELSE WithinWindow(now - item.last_notified_epoch, cooldown_minutes)

MarkerItem(station_id, alert_type, cooldown_minutes, current) ==
    [station_id |-> station_id,
     alert_type |-> alert_type,
     last_notified_epoch |-> current,
     expires_at |-> current + MarkerRetentionSeconds,
     cooldown_minutes |-> cooldown_minutes]

\* update_cooldown on a table that keeps one item for every time of writing
update_cooldown_appending(station_id, alert_type, cooldown_minutes) ==
    PutItem(alert_state, <<station_id, alert_type, now>>,
            MarkerItem(station_id, alert_type, cooldown_minutes, now))

\* update_cooldown that keeps a marker already in the table
update_cooldown_if_absent(station_id, alert_type, cooldown_minutes) ==
    IF <<station_id, alert_type>> \in DOMAIN alert_state THEN alert_state
    ELSE PutItem(alert_state, <<station_id, alert_type>>,
                 MarkerItem(station_id, alert_type, cooldown_minutes, now))

update_cooldown(station_id, alert_type, cooldown_minutes) ==
    PutItem(alert_state, <<station_id, alert_type>>,
            MarkerItem(station_id, alert_type, cooldown_minutes, now))

\* what sns.publish receives; at is the time of the call (not part of the message)
Message(topic_arn, station_id, owner_id, status) ==
    [TopicArn |-> topic_arn,
     Subject |-> <<"METAR", Upper(status), station_id>>,
     station_id |-> station_id,
     owner_id |-> owner_id,
     status |-> status,
     at |-> now]

(***************************************************************************)
(* Router: events and invocations.                                         *)
(***************************************************************************)
\* the "detail" of a station-alert event: the addressed station and status and
\* the policy snapshot the collector copies into it
Snapshots ==
    {[owner_id |-> "o1", notify_on |-> "both", cooldown_minutes |-> 60,
      alerts_enabled |-> TRUE],
     [owner_id |-> "", notify_on |-> "error", cooldown_minutes |-> 30,
      alerts_enabled |-> FALSE]}

Detail(station_id, status, snapshot) ==
    [station_id |-> station_id,
     status |-> status,
     owner_id |-> snapshot.owner_id,
     notify_on |-> snapshot.notify_on,
     cooldown_minutes |-> snapshot.cooldown_minutes,
     alerts_enabled |-> snapshot.alerts_enabled]

Details ==
    {Detail("kjwy", "error", sn) : sn \in Snapshots}
        \cup {Detail("KJWY", "EMPTY", sn) : sn \in Snapshots}
        \cup {Detail("KJWY", "ok", CHOOSE sn \in Snapshots : sn.alerts_enabled),
              Detail("", "error", CHOOSE sn \in Snapshots : ~sn.alerts_enabled)}

StationIdOf(detail) == Upper(detail.station_id)
StatusOf(detail) == Lower(detail.status)

NoResult == <<>>
Skipped(reason) == [ok |-> TRUE, skipped |-> reason]
\* Notified without the owner_id
NotifiedWithoutOwner(station_id, owner_id) ==
    [ok |-> TRUE, notified |-> TRUE, station_id |-> station_id]

Notified(station_id, owner_id) ==
    [ok |-> TRUE, notified |-> TRUE, station_id |-> station_id, owner_id |-> owner_id]

Idle ==
    [pc |-> "idle", detail |-> NoItem, owner_id |-> "", topic_arn |-> "",
     cooldown_minutes |-> 0, calls |-> <<>>, result |-> NoResult]

\* the handler has returned: the result is set and the locals are gone
Return(slot, result) ==
    [slot EXCEPT !.pc = "done", !.result = result,
                 !.owner_id = "", !.topic_arn = "", !.cooldown_minutes = 0]

\* the handler has raised: there is no result
Raise(slot) ==
    [slot EXCEPT !.pc = "failed", !.result = NoResult,
                 !.owner_id = "", !.topic_arn = "", !.cooldown_minutes = 0]

\* the calls of an invocation that have returned are kept in order, and after
\* them the call that raised
Called(slot, name) == [slot EXCEPT !.calls = Append(@, name)]
Failed(slot, name) == [slot EXCEPT !.calls = Append(@, <<name, "raised">>)]

(***************************************************************************)
(* Router: lambda_handler, cut at the calls that leave the process.        *)
(***************************************************************************)
\* ValidEvent without the check of the status
ValidEventAnyStatus(station_id, status) ==
    ~(station_id = "")

ValidEvent(station_id, status) ==
    ~(station_id = "" \/ status \notin {"error", "empty"})

\* StationVerdict with the notify policy consulted before the kill switch
StationVerdictPolicyFirst(station, status) ==
    IF station = NoItem THEN "station-not-found"
    ELSE IF ~should_notify(status, parse_notify_on(station.notify_on))
    THEN "notify-policy"
    ELSE IF ~station.alerts_enabled THEN "station-alerts-disabled"
    ELSE IF Strip(station.owner_id) = "" THEN "no-owner"
    ELSE ""

\* StationVerdict with the kill switch consulted last
StationVerdictSwitchLast(station, status) ==
    IF station = NoItem THEN "station-not-found"
    ELSE IF ~should_notify(status, parse_notify_on(station.notify_on))
    THEN "notify-policy"
    ELSE IF Strip(station.owner_id) = "" THEN "no-owner"
    ELSE IF ~station.alerts_enabled THEN "station-alerts-disabled"
    ELSE ""

\* the checks on the station item: the reason to skip, or "" to go on
StationVerdict(station, status) ==
    IF station = NoItem THEN "station-not-found"
    ELSE IF ~station.alerts_enabled THEN "station-alerts-disabled"
    ELSE IF ~should_notify(status, parse_notify_on(station.notify_on))
    THEN "notify-policy"
    ELSE IF Strip(station.owner_id) = "" THEN "no-owner"
    ELSE ""

\* the checks on the owner item: the reason to skip, or "" to go on
OwnerVerdict(owner) ==
    IF owner = NoItem THEN "owner-not-found"
    ELSE IF ~owner.alerts_enabled THEN "owner-alerts-disabled"
    ELSE IF owner.topic_arn = "" THEN "no-owner-topic"
    ELSE ""

\* validation, get_station and the checks on the station item
Begin(detail) ==
    LET station_id == StationIdOf(detail)
        status == StatusOf(detail)
        fresh == [Idle EXCEPT !.detail = detail]
    IN  IF ~ValidEvent(station_id, status)
        THEN Return(fresh, Skipped("invalid-event"))
        ELSE
        LET station == get_station(station_id)
            slot == Called(fresh, "get_station")
            verdict == StationVerdict(station, status)
        IN  IF verdict # ""
            THEN Return(slot, Skipped(verdict))
            ELSE [slot EXCEPT !.pc = "get_owner",
                              !.owner_id = Strip(station.owner_id),
                              !.cooldown_minutes = station.cooldown_minutes]

\* get_owner and the checks on the owner item
ResolveOwner(at) ==
    LET owner == get_owner(at.owner_id)
        slot == Called(at, "get_owner")
        verdict == OwnerVerdict(owner)
    IN  IF verdict # ""
        THEN Return(slot, Skipped(verdict))
        ELSE [slot EXCEPT !.pc = "in_cooldown", !.topic_arn = owner.topic_arn]

\* CooldownMinutesOf taken from the event's policy snapshot
CooldownMinutesFromSnapshot(at) == at.detail.cooldown_minutes

\* CooldownMinutesOf taken from the marker in the table, when there is one
CooldownMinutesFromMarker(at) ==
    LET item == GetItem(alert_state, <<StationIdOf(at.detail), StatusOf(at.detail)>>)
    IN  IF item = NoItem THEN at.cooldown_minutes ELSE item.cooldown_minutes

\* the cooldown_minutes the handler passes to in_cooldown and update_cooldown
CooldownMinutesOf(at) == at.cooldown_minutes

\* in_cooldown and the check on its answer
CheckCooldown(at) ==
    LET slot == Called(at, "in_cooldown")
    IN  IF in_cooldown(StationIdOf(at.detail), StatusOf(at.detail),
                       CooldownMinutesOf(at))
        THEN Return(slot, Skipped("cooldown"))
        ELSE [slot EXCEPT !.pc = "publish"]

\* publish_owner_topic returned
Published(at) ==
    [Called(at, "publish_owner_topic") EXCEPT !.pc = "update_cooldown"]

\* OnPublishError with the failure swallowed: the handler goes on to record
OnPublishErrorSwallowed(at) ==
    [Failed(at, "publish_owner_topic") EXCEPT !.pc = "update_cooldown"]

\* publish_owner_topic raised: lambda_handler catches nothing
OnPublishError(at) == Raise(Failed(at, "publish_owner_topic"))

\* Recorded with the owner_id of the event's policy snapshot in the result
RecordedSnapshotOwner(at) ==
    Return(Called(at, "update_cooldown"),
           Notified(StationIdOf(at.detail), at.detail.owner_id))

\* update_cooldown returned: the notified result
Recorded(at) ==
    Return(Called(at, "update_cooldown"),
           Notified(StationIdOf(at.detail), at.owner_id))

\* an event is delivered to a slot whose last invocation has ended
Start(p, details) ==
    /\ inv[p].pc \in {"idle", "done", "failed"}
    /\ \E detail \in details : inv' = [inv EXCEPT ![p] = Begin(detail)]
    /\ UNCHANGED <<stations, owners, alert_state, now, sns, elsewhere>>

GetOwner(p) ==
    /\ inv[p].pc = "get_owner"
    /\ inv' = [inv EXCEPT ![p] = ResolveOwner(inv[p])]
    /\ UNCHANGED <<stations, owners, alert_state, now, sns, elsewhere>>

\* InCooldown that refreshes the marker of an event it suppresses
InCooldownRefreshing(p) ==
    /\ inv[p].pc = "in_cooldown"
    /\ inv' = [inv EXCEPT ![p] = CheckCooldown(inv[p])]
    /\ alert_state' =
          IF CheckCooldown(inv[p]).pc = "done"
          THEN update_cooldown(StationIdOf(inv[p].detail), StatusOf(inv[p].detail),
                               CooldownMinutesOf(inv[p]))
          ELSE alert_state
    /\ UNCHANGED <<stations, owners, now, sns, elsewhere>>

InCooldown(p) ==
    /\ inv[p].pc = "in_cooldown"
    /\ inv' = [inv EXCEPT ![p] = CheckCooldown(inv[p])]
    /\ UNCHANGED <<stations, owners, alert_state, now, sns, elsewhere>>

\* publish_owner_topic, accepted by SNS
Publish(p) ==
    /\ inv[p].pc = "publish"
    /\ sns' = Append(sns, Message(inv[p].topic_arn, StationIdOf(inv[p].detail),
                                  inv[p].owner_id, StatusOf(inv[p].detail)))
    /\ inv' = [inv EXCEPT ![p] = Published(inv[p])]
    /\ UNCHANGED <<stations, owners, alert_state, now, elsewhere>>

\* publish_owner_topic, refused by SNS
PublishFails(p) ==
    /\ inv[p].pc = "publish"
    /\ inv' = [inv EXCEPT ![p] = OnPublishError(inv[p])]
    /\ UNCHANGED <<stations, owners, alert_state, now, sns, elsewhere>>

\* update_cooldown and the return of the notified result
UpdateCooldown(p) ==
    /\ inv[p].pc = "update_cooldown"
    /\ alert_state' = update_cooldown(StationIdOf(inv[p].detail),
                                      StatusOf(inv[p].detail),
                                      CooldownMinutesOf(inv[p]))
    /\ inv' = [inv EXCEPT ![p] = Recorded(inv[p])]
    /\ UNCHANGED <<stations, owners, now, sns, elsewhere>>

Router(p, details) ==
    \/ Start(p, details)
    \/ GetOwner(p)
    \/ InCooldown(p)
    \/ Publish(p)
    \/ PublishFails(p)
    \/ UpdateCooldown(p)

(***************************************************************************)
(* Router: a table that cannot be reached.  get_item and put_item raise,   *)
(* the getters and lambda_handler catch nothing, and the refused put_item  *)
(* writes nothing.                                                         *)
(***************************************************************************)
\* OnStoreError answering the event as skipped
OnStoreErrorSkipped(at, name) ==
    Return(Failed(at, name), Skipped("storage-unavailable"))

OnStoreError(at, name) == Raise(Failed(at, name))

GetStationFails(p, details) ==
    /\ inv[p].pc \in {"idle", "done", "failed"}
    /\ \E detail \in details :
          /\ ValidEvent(StationIdOf(detail), StatusOf(detail))
          /\ inv' = [inv EXCEPT
                        ![p] = OnStoreError([Idle EXCEPT !.detail = detail],
                                            "get_station")]
    /\ UNCHANGED <<stations, owners, alert_state, now, sns, elsewhere>>

GetOwnerFails(p) ==
    /\ inv[p].pc = "get_owner"
    /\ inv' = [inv EXCEPT ![p] = OnStoreError(inv[p], "get_owner")]
    /\ UNCHANGED <<stations, owners, alert_state, now, sns, elsewhere>>

InCooldownFails(p) ==
    /\ inv[p].pc = "in_cooldown"
    /\ inv' = [inv EXCEPT ![p] = OnStoreError(inv[p], "in_cooldown")]
    /\ UNCHANGED <<stations, owners, alert_state, now, sns, elsewhere>>

UpdateCooldownFails(p) ==
    /\ inv[p].pc = "update_cooldown"
    /\ inv' = [inv EXCEPT ![p] = OnStoreError(inv[p], "update_cooldown")]
    /\ UNCHANGED <<stations, owners, alert_state, now, sns, elsewhere>>

StoreFails(p, details) ==
    \/ GetStationFails(p, details)
    \/ GetOwnerFails(p)
    \/ InCooldownFails(p)
    \/ UpdateCooldownFails(p)

(***************************************************************************)
(* The clock.                                                              *)
(***************************************************************************)
Tick(times) ==
    /\ \E t \in times : t > now /\ now' = t
    /\ UNCHANGED <<stations, owners, alert_state, sns, inv, elsewhere>>

(***************************************************************************)
(* Admin: station and owner maintenance.                                   *)
(***************************************************************************)
StationBodies ==
    [station_id : {"kjwy", ""},
     enabled : BOOLEAN,
     owner_id : {" o1", ""},
     notify_on : {"ERROR", "empty", "Both", "weekly"},
     cooldown_minutes : CooldownChoices,
     alerts_enabled : BOOLEAN]

\* add_station without the check of notify_on
add_station_unchecked(body) ==
    LET station_id == Upper(Strip(body.station_id))
        item == [station_id |-> station_id,
                 enabled |-> body.enabled,
                 owner_id |-> Strip(body.owner_id),
                 notify_on |-> Lower(body.notify_on),
                 cooldown_minutes |-> body.cooldown_minutes,
                 alerts_enabled |-> body.alerts_enabled]
    IN  IF station_id = "" THEN stations
        ELSE PutItem(stations, station_id, item)

add_station(body) ==
    LET station_id == Upper(Strip(body.station_id))
        item == [station_id |-> station_id,
                 enabled |-> body.enabled,
                 owner_id |-> Strip(body.owner_id),
                 notify_on |-> Lower(body.notify_on),
                 cooldown_minutes |-> body.cooldown_minutes,
                 alerts_enabled |-> body.alerts_enabled]
    IN  IF station_id = "" THEN stations
        ELSE IF item.notify_on \notin {"error", "empty", "both"} THEN stations
        ELSE PutItem(stations, station_id, item)

AddStation(bodies) ==
    /\ \E body \in bodies : stations' = add_station(body)
    /\ UNCHANGED <<owners, alert_state, now, sns, inv, elsewhere>>

OwnerBodies ==
    [owner_id : {" o1", ""},
     topic_arn : {"arn:o1", " "},
     alerts_enabled : BOOLEAN]

add_owner(body) ==
    LET owner_id == Strip(body.owner_id)
        topic_arn == Strip(body.topic_arn)
        item == [owner_id |-> owner_id,
                 topic_arn |-> topic_arn,
                 alerts_enabled |-> body.alerts_enabled]
    IN  IF owner_id = "" THEN owners
        ELSE IF topic_arn = "" THEN owners
        ELSE PutItem(owners, owner_id, item)

AddOwner(bodies) ==
    /\ \E body \in bodies : owners' = add_owner(body)
    /\ UNCHANGED <<stations, alert_state, now, sns, inv, elsewhere>>

delete_station(station_id) ==
    LET sid == Upper(Strip(station_id))
    IN  IF sid = "" THEN stations ELSE DeleteItem(stations, sid)

\* DeleteStation that clears the markers of the station as well
DeleteStationAndMarkers(station_ids) ==
    /\ \E station_id \in station_ids :
          /\ stations' = delete_station(station_id)
          /\ alert_state' = [key \in {k \in DOMAIN alert_state :
                                        k[1] # Upper(Strip(station_id))} |->
                                alert_state[key]]
    /\ UNCHANGED <<owners, now, sns, inv, elsewhere>>

DeleteStation(station_ids) ==
    /\ \E station_id \in station_ids : stations' = delete_station(station_id)
    /\ UNCHANGED <<owners, alert_state, now, sns, inv, elsewhere>>

delete_owner(owner_id) ==
    LET oid == Strip(owner_id)
    IN  IF oid = "" THEN owners ELSE DeleteItem(owners, oid)

DeleteOwner(owner_ids) ==
    /\ \E owner_id \in owner_ids : owners' = delete_owner(owner_id)
    /\ UNCHANGED <<stations, alert_state, now, sns, inv, elsewhere>>

(***************************************************************************)
(* Admin: passwords and session tokens.  A digest is the record of what    *)
(* went into it, so two digests are equal when their inputs are; text is   *)
(* the record of what it encodes.  A token is the sequence of the parts    *)
(* its text has between the dots.                                          *)
(***************************************************************************)
\* ADMIN_SESSION_SECRET of the deployment
AdminSessionSecret == "test-secret"

token_secret ==
    IF Strip(AdminSessionSecret) = "" THEN "unsafe-dev-secret"
    ELSE Strip(AdminSessionSecret)

\* dict.get(field, default)
Get(dict, field, default) ==
    IF field \in DOMAIN dict THEN dict[field] ELSE default

b64url_encode(raw) == [b64 |-> raw]

b64url_decode(value) == value.b64

\* json.dumps of an object, and what json.loads makes of a text
json_dumps(payload) == [json |-> payload]

IsJson(text) == "json" \in DOMAIN text

json_loads(text) == text.json

Hmac(key, msg) == [key |-> key, msg |-> msg]

PasswordIterations == 200000

password_hash(password, salt_hex, iterations) ==
    [password |-> password, salt |-> salt_hex, iterations |-> iterations]

\* secrets.token_hex(16) is the salt
create_password_fields(password, salt_hex) ==
    [password_salt |-> salt_hex,
     password_iterations |-> PasswordIterations,
     password_hash |-> password_hash(password, salt_hex, PasswordIterations)]

verify_password(password, item) ==
    IF ~({"password_hash", "password_salt"} \subseteq DOMAIN item) THEN FALSE
    ELSE item.password_hash =
            password_hash(password, item.password_salt,
                          Get(item, "password_iterations", PasswordIterations))

DefaultTtlMinutes == 480

SessionPayload(username, exp) == [username |-> username, exp |-> exp]

SignedToken(secret, payload_part) ==
    <<payload_part, b64url_encode(Hmac(secret, payload_part))>>

\* new_session_token at the time at: the token and its expiry
new_session_token(username, ttl_minutes, at) ==
    LET exp == at + ttl_minutes * SecondsPerMinute
        payload_part == b64url_encode(json_dumps(SessionPayload(username, exp)))
    IN  [token |-> SignedToken(token_secret, payload_part), exp |-> exp]

\* verify_session_token without the check of the expiry
verify_session_token_forever(token, at) ==
    IF Len(token) < 2 THEN ""
    ELSE IF Len(token) > 2 THEN ""
    ELSE IF b64url_encode(Hmac(token_secret, token[1])) # token[2] THEN ""
    ELSE IF ~IsJson(b64url_decode(token[1])) THEN ""
    ELSE Strip(Get(json_loads(b64url_decode(token[1])), "username", ""))

\* verify_session_token at the time at: the username, or "" for a token
\* that is not accepted.  A text without a dot has one part; with more than
\* one dot the second part of split(".", 1) holds a dot and is no signature.
verify_session_token(token, at) ==
    IF Len(token) < 2 THEN ""
    ELSE IF Len(token) > 2 THEN ""
    ELSE IF b64url_encode(Hmac(token_secret, token[1])) # token[2] THEN ""
    ELSE IF ~IsJson(b64url_decode(token[1])) THEN ""
    ELSE LET payload == json_loads(b64url_decode(token[1]))
         IN  IF at >= Get(payload, "exp", 0) THEN ""
             ELSE Strip(Get(payload, "username", ""))

\* the Authorization header: its scheme and the token after it
NoHeaders == [scheme |-> "", token |-> <<>>]

parse_bearer_token(headers) ==
    IF Lower(headers.scheme) # "bearer" THEN <<>> ELSE headers.token

require_auth(event) == verify_session_token(parse_bearer_token(event.headers), now)

(***************************************************************************)
(* Admin: the administrator's record.  Every function yields its result,   *)
(* the table calls it made, in order, and the table it leaves.             *)
(***************************************************************************)
Merge(item, fields) ==
    [f \in DOMAIN item \cup DOMAIN fields |->
        IF f \in DOMAIN fields THEN fields[f] ELSE item[f]]

Remove(item, names) == [f \in DOMAIN item \ names |-> item[f]]

\* the value of an attribute that holds no digest
NoDigest == [password |-> "", salt |-> "", iterations |-> 0]

MinPasswordLength == 10
ResetSeconds == 1800

Done(result, calls, table) == [result |-> result, calls |-> calls, table |-> table]

AdminError(message) == [error |-> message]

\* scan(Limit=1): is there any item
is_bootstrapped == admins # <<>>

get_admin(username) == IF username = "" THEN NoItem ELSE GetItem(admins, username)

bootstrap_admin(body, salt_hex) ==
    LET username == Strip(Get(body, "username", ""))
        password == Get(body, "password", "")
        item == Merge([username |-> username, updated_at_epoch |-> now],
                      create_password_fields(password, salt_hex))
        session == new_session_token(username, DefaultTtlMinutes, now)
        scan == <<(<<"admins", "scan">>)>>
    IN  IF is_bootstrapped
        THEN Done(AdminError("admin user already exists"), scan, admins)
        ELSE IF username = "" \/ password = ""
        THEN Done(AdminError("username and password are required"), scan, admins)
        ELSE IF Len(password) < MinPasswordLength
        THEN Done(AdminError("password must be at least 10 characters"), scan, admins)
        ELSE Done([ok |-> TRUE, bootstrapped |-> TRUE, token |-> session.token,
                   expires_at_epoch |-> session.exp],
                  scan \o <<(<<"admins", "put_item">>)>>,
                  PutItem(admins, username, item))

\* login that takes any password of a known administrator
login_any_password(body) ==
    LET username == Strip(Get(body, "username", ""))
        password == Get(body, "password", "")
        item == get_admin(username)
        session == new_session_token(username, DefaultTtlMinutes, now)
        read == <<(<<"admins", "get_item">>)>>
    IN  IF username = "" \/ password = ""
        THEN Done(AdminError("username and password are required"), <<>>, admins)
        ELSE IF item = NoItem
        THEN Done(AdminError("invalid credentials"), read, admins)
        ELSE Done([ok |-> TRUE, token |-> session.token,
                   expires_at_epoch |-> session.exp], read, admins)

login(body) ==
    LET username == Strip(Get(body, "username", ""))
        password == Get(body, "password", "")
        item == get_admin(username)
        session == new_session_token(username, DefaultTtlMinutes, now)
        read == <<(<<"admins", "get_item">>)>>
    IN  IF username = "" \/ password = ""
        THEN Done(AdminError("username and password are required"), <<>>, admins)
        ELSE IF item = NoItem \/ ~verify_password(password, item)
        THEN Done(AdminError("invalid credentials"), read, admins)
        ELSE Done([ok |-> TRUE, token |-> session.token,
                   expires_at_epoch |-> session.exp], read, admins)

\* secrets.randbelow gives the reset code, secrets.token_hex its salt
request_password_reset(body, reset_code, salt_hex) ==
    LET username == Strip(Get(body, "username", ""))
        item == get_admin(username)
        code_fields == create_password_fields(reset_code, salt_hex)
        expires_at == now + ResetSeconds
        read == <<(<<"admins", "get_item">>)>>
        updated == Merge(item, [reset_hash |-> code_fields.password_hash,
                                reset_salt |-> code_fields.password_salt,
                                reset_iterations |-> code_fields.password_iterations,
                                reset_expires_epoch |-> expires_at,
                                updated_at_epoch |-> now])
    IN  IF username = ""
        THEN Done(AdminError("username is required"), <<>>, admins)
        ELSE IF item = NoItem
        THEN Done(AdminError("unknown username"), read, admins)
        ELSE Done([ok |-> TRUE, username |-> username, reset_code |-> reset_code,
                   expires_at_epoch |-> expires_at],
                  read \o <<(<<"admins", "update_item">>)>>,
                  PutItem(admins, username, updated))

confirm_password_reset(body, salt_hex) ==
    LET username == Strip(Get(body, "username", ""))
        reset_code == Strip(Get(body, "reset_code", ""))
        new_password == Get(body, "new_password", "")
        item == get_admin(username)
        read == <<(<<"admins", "get_item">>)>>
        reset_ok ==
            verify_password(reset_code,
                            [password_hash |-> Get(item, "reset_hash", NoDigest),
                             password_salt |-> Get(item, "reset_salt", ""),
                             password_iterations |->
                                 Get(item, "reset_iterations", PasswordIterations)])
        updated ==
            Remove(Merge(item, Merge(create_password_fields(new_password, salt_hex),
                                     [updated_at_epoch |-> now])),
                   {"reset_hash", "reset_salt", "reset_iterations",
                    "reset_expires_epoch"})
    IN  IF username = "" \/ reset_code = "" \/ new_password = ""
        THEN Done(AdminError("username, reset_code, and new_password are required"),
                  <<>>, admins)
        ELSE IF Len(new_password) < MinPasswordLength
        THEN Done(AdminError("new_password must be at least 10 characters"),
                  <<>>, admins)
        ELSE IF item = NoItem
        THEN Done(AdminError("unknown username"), read, admins)
        ELSE IF now > Get(item, "reset_expires_epoch", 0)
        THEN Done(AdminError("reset code expired"), read, admins)
        ELSE IF ~reset_ok
        THEN Done(AdminError("invalid reset code"), read, admins)
        ELSE Done([ok |-> TRUE, username |-> username],
                  read \o <<(<<"admins", "update_item">>)>>,
                  PutItem(admins, username, updated))

(***************************************************************************)
(* Admin: lambda_handler.  An event is its method, the type of its query,  *)
(* its path parameters, its Authorization header and its body: the text of *)
(* a JSON object, of a JSON list, or no JSON at all.                       *)
(***************************************************************************)
http_response(status_code, payload) == [statusCode |-> status_code, body |-> payload]

NoBody == [json |-> <<>>]

IsObject(text) == IsJson(text) /\ "list" \notin DOMAIN text

\* str(exc) of what json.loads or body.get raise on such a body
BodyError(text) ==
    IF IsJson(text) THEN "'list' object has no attribute 'get'"
    ELSE "Expecting value"

\* the body with the defaults add_station reads it with
StationBody(body) ==
    [station_id |-> Get(body, "station_id", ""),
     enabled |-> Get(body, "enabled", TRUE),
     owner_id |-> Get(body, "owner_id", ""),
     notify_on |-> Get(body, "notify_on", "both"),
     cooldown_minutes |-> Get(body, "cooldown_minutes", 60),
     alerts_enabled |-> Get(body, "alerts_enabled", TRUE)]

OwnerBody(body) ==
    [owner_id |-> Get(body, "owner_id", ""),
     topic_arn |-> Get(body, "topic_arn", ""),
     alerts_enabled |-> Get(body, "alerts_enabled", TRUE)]

\* what add_station returns
add_station_result(body) ==
    LET station_id == Upper(Strip(body.station_id))
        notify_on == Lower(body.notify_on)
    IN  IF station_id = "" THEN AdminError("station_id is required")
        ELSE IF notify_on \notin {"error", "empty", "both"}
        THEN AdminError("notify_on must be error|empty|both")
        ELSE [ok |-> TRUE, item |-> add_station(body)[station_id]]

add_owner_result(body) ==
    LET owner_id == Strip(body.owner_id)
    IN  IF owner_id = "" THEN AdminError("owner_id is required")
        ELSE IF Strip(body.topic_arn) = "" THEN AdminError("topic_arn is required")
        ELSE [ok |-> TRUE, item |-> add_owner(body)[owner_id]]

delete_station_result(station_id) ==
    IF Upper(Strip(station_id)) = "" THEN AdminError("station_id is required")
    ELSE [ok |-> TRUE, station_id |-> Upper(Strip(station_id))]

delete_owner_result(owner_id) ==
    IF Strip(owner_id) = "" THEN AdminError("owner_id is required")
    ELSE [ok |-> TRUE, owner_id |-> Strip(owner_id)]

\* the items of a scan, sorted by their key
list_stations ==
    LET Present(k) == k \in DOMAIN stations
        ids == SelectSeq(StationOrder, Present)
    IN  [n \in 1..Len(ids) |-> stations[ids[n]]]

list_owners ==
    LET Present(k) == k \in DOMAIN owners
        ids == SelectSeq(<<"o1">>, Present)
    IN  [n \in 1..Len(ids) |-> owners[ids[n]]]

PublicActions == {"bootstrap", "login", "request_reset", "confirm_reset"}

\* what an invocation leaves: its response, its table calls, the tables
Handled(resp, calls) ==
    [response |-> resp, calls |-> calls,
     stations |-> stations, owners |-> owners, admins |-> admins]

\* a public action: the status of a refusal, and what the function did
Public(refused, done) ==
    [Handled(http_response(IF "error" \in DOMAIN done.result THEN refused ELSE 200,
                      done.result),
             done.calls)
     EXCEPT !.admins = done.table]

Maintained(result, calls, stations_after, owners_after) ==
    [Handled(http_response(IF "error" \in DOMAIN result THEN 400 ELSE 200, result),
             IF "error" \in DOMAIN result THEN <<>> ELSE calls)
     EXCEPT !.stations = stations_after, !.owners = owners_after]

\* the handler after require_auth has named the user
Authorized(event, kind, username) ==
    CASE event.method = "GET" /\ kind = "owners" ->
            Handled(http_response(200, [type |-> "owners", count |-> Len(list_owners),
                                   items |-> list_owners, user |-> username]),
                    <<(<<"owners", "scan">>)>>)
      [] event.method = "GET" /\ kind # "owners" ->
            Handled(http_response(200, [type |-> "stations", count |-> Len(list_stations),
                                   items |-> list_stations, user |-> username]),
                    <<(<<"stations", "scan">>)>>)
      [] event.method = "POST" /\ ~IsObject(event.body) ->
            Handled(http_response(500, AdminError(BodyError(event.body))), <<>>)
      [] event.method = "POST" /\ IsObject(event.body) /\ kind = "owners" ->
            Maintained(add_owner_result(OwnerBody(json_loads(event.body))),
                       <<(<<"owners", "put_item">>)>>,
                       stations, add_owner(OwnerBody(json_loads(event.body))))
      [] event.method = "POST" /\ IsObject(event.body) /\ kind # "owners" ->
            Maintained(add_station_result(StationBody(json_loads(event.body))),
                       <<(<<"stations", "put_item">>)>>,
                       add_station(StationBody(json_loads(event.body))), owners)
      [] event.method = "DELETE" /\ "owner_id" \in DOMAIN event.path ->
            Maintained(delete_owner_result(event.path.owner_id),
                       <<(<<"owners", "delete_item">>)>>,
                       stations, delete_owner(event.path.owner_id))
      [] event.method = "DELETE" /\ "owner_id" \notin DOMAIN event.path ->
            Maintained(delete_station_result(Get(event.path, "station_id", "")),
                       <<(<<"stations", "delete_item">>)>>,
                       delete_station(Get(event.path, "station_id", "")), owners)
      [] OTHER -> Handled(http_response(405, AdminError("Method not allowed")), <<>>)

\* lambda_handler that asks for no session
lambda_handler_open(event, salt_hex, reset_code) ==
    LET kind == Lower(IF event.kind = "" THEN "stations" ELSE event.kind)
        action == IF event.method = "POST" /\ IsObject(event.body)
                  THEN Lower(Get(json_loads(event.body), "action", ""))
                  ELSE ""
        body == json_loads(event.body)
    IN  CASE event.method = "OPTIONS" -> Handled(http_response(200, <<>>), <<>>)
          [] event.method = "POST" /\ ~IsObject(event.body) ->
                Handled(http_response(500, AdminError(BodyError(event.body))), <<>>)
          [] event.method = "POST" /\ action = "bootstrap" ->
                Public(400, bootstrap_admin(body, salt_hex))
          [] event.method = "POST" /\ action = "login" -> Public(401, login(body))
          [] event.method = "POST" /\ action = "request_reset" ->
                Public(400, request_password_reset(body, reset_code, salt_hex))
          [] event.method = "POST" /\ action = "confirm_reset" ->
                Public(400, confirm_password_reset(body, salt_hex))
          [] OTHER -> Authorized(event, kind, "anyone")

lambda_handler(event, salt_hex, reset_code) ==
    LET kind == Lower(IF event.kind = "" THEN "stations" ELSE event.kind)
        action == IF event.method = "POST" /\ IsObject(event.body)
                  THEN Lower(Get(json_loads(event.body), "action", ""))
                  ELSE ""
        body == json_loads(event.body)
        username == require_auth(event)
    IN  CASE event.method = "OPTIONS" -> Handled(http_response(200, <<>>), <<>>)
          [] event.method = "POST" /\ ~IsObject(event.body) ->
                Handled(http_response(500, AdminError(BodyError(event.body))), <<>>)
          [] event.method = "POST" /\ action = "bootstrap" ->
                Public(400, bootstrap_admin(body, salt_hex))
          [] event.method = "POST" /\ action = "login" -> Public(401, login(body))
          [] event.method = "POST" /\ action = "request_reset" ->
                Public(400, request_password_reset(body, reset_code, salt_hex))
          [] event.method = "POST" /\ action = "confirm_reset" ->
                Public(400, confirm_password_reset(body, salt_hex))
          [] OTHER ->
                IF username = ""
                THEN Handled(http_response(401, AdminError("Unauthorized")), <<>>)
                ELSE Authorized(event, kind, username)

\* one invocation of the handler, from the event to the response
AdminIdle == [pc |-> "idle", event |-> <<>>, calls |-> <<>>, response |-> <<>>]

Salts == {"a1", "b2"}
ResetCodes == {"000001", "000002"}

Handle(events, salts, reset_codes) ==
    \E event \in events, salt_hex \in salts, reset_code \in reset_codes :
        LET out == lambda_handler(event, salt_hex, reset_code)
        IN  /\ adm' = [pc |-> "done", event |-> event, calls |-> out.calls,
                       response |-> out.response]
            /\ stations' = out.stations
            /\ owners' = out.owners
            /\ admins' = out.admins
            /\ UNCHANGED <<alert_state, now, sns, inv, runs, metars, bus, col, call>>

(***************************************************************************)
(* Collector: configuration, parsing and the candidate events.             *)
(***************************************************************************)
\* STATION_IDS, when the station table yields no enabled station
FallbackStationIds == <<"KJWY">>

RunRetentionSeconds == 30 * 24 * 3600
MetarRetentionSeconds == 30 * 24 * 3600

StationConfig(i) ==
    [station_id |-> Upper(Strip(i.station_id)),
     owner_id |-> i.owner_id,
     notify_on |-> Lower(i.notify_on),
     cooldown_minutes |-> i.cooldown_minutes,
     alerts_enabled |-> i.alerts_enabled]

FallbackConfig(x) ==
    [station_id |-> Upper(Strip(x)),
     owner_id |-> "",
     notify_on |-> "both",
     cooldown_minutes |-> 60,
     alerts_enabled |-> TRUE]

\* the scan for enabled stations, the configs sorted by station_id, and the
\* fallback to STATION_IDS when there is none
get_station_configs ==
    LET Listed(k) ==
            /\ k \in DOMAIN stations
            /\ stations[k].enabled = TRUE
            /\ Upper(Strip(stations[k].station_id)) # ""
        ids == SelectSeq(StationOrder, Listed)
    IN  IF ids # <<>>
        THEN [n \in 1..Len(ids) |-> StationConfig(stations[ids[n]])]
        ELSE [n \in 1..Len(FallbackStationIds) |->
                  FallbackConfig(FallbackStationIds[n])]

StationIdsOf(station_configs) ==
    [n \in 1..Len(station_configs) |-> station_configs[n].station_id]

\* a METAR element of the response: a child it lacks is a field it lacks
HasText(element, child) ==
    child \in DOMAIN element /\ element[child] # ""

\* parse_metar_xml: the elements with a station_id and an observation_time
parse_metar_xml(body) ==
    LET Complete(element) ==
            HasText(element, "station_id") /\ "observation_time" \in DOMAIN element
    IN  SelectSeq(body, Complete)

\* status_by_station.get(sid, "empty")
StatusFor(status_by_station, sid) ==
    IF sid \in DOMAIN status_by_station THEN status_by_station[sid] ELSE "empty"

Payload(cfg, checked_at, source_url, status, error_message) ==
    [checked_at_utc |-> checked_at,
     station_id |-> cfg.station_id,
     status |-> status,
     source_url |-> source_url,
     error_message |-> error_message,
     owner_id |-> cfg.owner_id,
     notify_on |-> cfg.notify_on,
     cooldown_minutes |-> cfg.cooldown_minutes,
     alerts_enabled |-> cfg.alerts_enabled]

\* station_alert_events without the skip of the stations that are ok
station_alert_events_all(station_configs, checked_at, source_url, status_by_station, error_message) ==
    [n \in 1..Len(station_configs) |->
        Payload(station_configs[n], checked_at, source_url,
                StatusFor(status_by_station, station_configs[n].station_id),
                error_message)]

station_alert_events(station_configs, checked_at, source_url, status_by_station, error_message) ==
    LET Alerting(cfg) == StatusFor(status_by_station, cfg.station_id) # "ok"
        alerting == SelectSeq(station_configs, Alerting)
    IN  [n \in 1..Len(alerting) |->
            Payload(alerting[n], checked_at, source_url,
                    StatusFor(status_by_station, alerting[n].station_id),
                    error_message)]

\* metar_counts and station_statuses of the handler
MetarCount(metar_list, sid) ==
    Cardinality({n \in 1..Len(metar_list) : metar_list[n].station_id = sid})

StationStatuses(station_ids, metar_list) ==
    [sid \in {station_ids[n] : n \in 1..Len(station_ids)} |->
        IF MetarCount(metar_list, sid) > 0 THEN "ok" ELSE "empty"]

AllStatus(station_ids, status) ==
    [sid \in {station_ids[n] : n \in 1..Len(station_ids)} |-> status]

(***************************************************************************)
(* Collector: lambda_handler, cut at the calls that leave the process.     *)
(* col.branch is the arm of the handler the invocation is in: "error"      *)
(* after fetch_xml or parse_metar_xml raised, "empty" after a response     *)
(* without a complete METAR, "ok" otherwise.                               *)
(***************************************************************************)
\* the environment of the function: ALERT_ON_EMPTY
CollectorAt(alert_on_empty) ==
    [pc |-> "idle", alert_on_empty |-> alert_on_empty, run_no |-> 0,
     checked_at |-> 0, station_configs |-> <<>>, metar_list |-> <<>>,
     branch |-> "", err |-> "", events |-> <<>>, response |-> NoResult]

\* what fetch_xml or parse_metar_xml raise with
FetchErrors == {"timed out", "syntax error"}

\* the responses of the weather service at a given time: METAR elements for
\* stations asked for or not, observed half an hour or two and a half hours
\* before, some of them incomplete
Element(station_id, observation_time) ==
    [station_id |-> station_id, observation_time |-> observation_time]

XmlBodies(at) ==
    {<<>>,
     <<Element("KJWY", at - HalfHour)>>,
     <<Element("KJWY", at - HalfHour), Element("KSLC", at - HalfHour)>>,
     <<Element("KSLC", at - 5 * HalfHour)>>,
     <<Element("KJWY", at - 5 * HalfHour), Element("KJWY", at - HalfHour)>>,
     <<Element("KDEN", at - HalfHour)>>,
     <<[station_id |-> "KJWY"]>>,
     <<Element("", at - HalfHour)>>}

RunItem(at, status, metar_count) ==
    LET item == [pk |-> "RUN",
                 checked_at_utc |-> at.checked_at,
                 status |-> status,
                 station_ids |-> StationIdsOf(at.station_configs),
                 source_url |-> StationIdsOf(at.station_configs),
                 metar_count |-> metar_count,
                 expires_at |-> now + RunRetentionSeconds]
    IN  IF at.err # ""
        THEN [f \in DOMAIN item \cup {"error_message"} |->
                 IF f = "error_message" THEN at.err ELSE item[f]]
        ELSE item

write_run(at, status, metar_count) ==
    PutItem(runs, at.checked_at, RunItem(at, status, metar_count))

MetarItem(m, collected_at) ==
    [station_id |-> m.station_id,
     observation_time |-> m.observation_time,
     collected_at |-> collected_at,
     expires_at |-> m.observation_time + MetarRetentionSeconds]

\* the batch writer overwrites by station_id and observation_time
write_metars(metar_list, collected_at) ==
    LET keys == {<<metar_list[n].station_id, metar_list[n].observation_time>> :
                     n \in 1..Len(metar_list)}
        Last(key) ==
            CHOOSE n \in 1..Len(metar_list) :
                /\ <<metar_list[n].station_id, metar_list[n].observation_time>> = key
                /\ \A m \in n + 1..Len(metar_list) :
                      <<metar_list[m].station_id, metar_list[m].observation_time>> # key
    IN  [key \in DOMAIN metars \cup keys |->
            IF key \in keys THEN MetarItem(metar_list[Last(key)], collected_at)
            ELSE metars[key]]

ErrorResponse(at) ==
    [statusCode |-> 502, status |-> "error", error |-> at.err,
     checked_at_utc |-> at.checked_at]

EmptyResponse == [statusCode |-> 200, status |-> "empty", count |-> 0]

OkResponse(at) ==
    [statusCode |-> 200, status |-> "ok", checked_at_utc |-> at.checked_at,
     count |-> Len(at.metar_list),
     stations |-> {at.metar_list[n].station_id : n \in 1..Len(at.metar_list)}]

CollectorReturn(at, response) ==
    [at EXCEPT !.pc = "done", !.response = response, !.events = <<>>]

\* publish_station_alert_events: put_events is called for a non-empty list only
ToPublish(at, station_events, otherwise) ==
    IF station_events # <<>>
    THEN [at EXCEPT !.pc = "put_events", !.events = station_events]
    ELSE otherwise

SourceUrl(at) == StationIdsOf(at.station_configs)

\* utc_now_iso and get_station_configs
CollectorStart ==
    /\ col.pc \in {"idle", "done"}
    /\ col.run_no < MaxRuns
    /\ col' = [col EXCEPT !.pc = "fetch_xml",
                          !.run_no = @ + 1,
                          !.checked_at = now,
                          !.station_configs = get_station_configs,
                          !.metar_list = <<>>,
                          !.branch = "",
                          !.err = "",
                          !.events = <<>>,
                          !.response = NoResult]
    /\ UNCHANGED <<stations, owners, alert_state, now, sns, inv, runs, metars, bus, call, admins, adm>>

\* fetch_xml or parse_metar_xml raises
FetchRaises(errors) ==
    /\ col.pc = "fetch_xml"
    /\ \E err \in errors :
          col' = [col EXCEPT !.pc = "write_run", !.branch = "error", !.err = err]
    /\ UNCHANGED <<stations, owners, alert_state, now, sns, inv, runs, metars, bus, call, admins, adm>>

\* Classified with the events of the missing stations sent without regard to
\* ALERT_ON_EMPTY
ClassifiedUngated(at, metar_list) ==
    LET ok == [at EXCEPT !.metar_list = metar_list, !.branch = "ok"]
        store == [ok EXCEPT !.pc = "write_metars"]
        station_ids == StationIdsOf(at.station_configs)
    IN  IF metar_list = <<>>
        THEN [at EXCEPT !.pc = "write_run", !.branch = "empty"]
        ELSE ToPublish(ok,
                       station_alert_events(at.station_configs, at.checked_at,
                                            SourceUrl(at),
                                            StationStatuses(station_ids, metar_list),
                                            ""),
                       store)

\* the handler between parse_metar_xml and its next call, with records parsed
Classified(at, metar_list) ==
    LET ok == [at EXCEPT !.metar_list = metar_list, !.branch = "ok"]
        store == [ok EXCEPT !.pc = "write_metars"]
        station_ids == StationIdsOf(at.station_configs)
    IN  IF metar_list = <<>>
        THEN [at EXCEPT !.pc = "write_run", !.branch = "empty"]
        ELSE IF at.alert_on_empty
        THEN ToPublish(ok,
                       station_alert_events(at.station_configs, at.checked_at,
                                            SourceUrl(at),
                                            StationStatuses(station_ids, metar_list),
                                            ""),
                       store)
        ELSE store

\* fetch_xml and parse_metar_xml return
FetchReturns(bodies) ==
    /\ col.pc = "fetch_xml"
    /\ \E body \in bodies : col' = Classified(col, parse_metar_xml(body))
    /\ UNCHANGED <<stations, owners, alert_state, now, sns, inv, runs, metars, bus, call, admins, adm>>

\* AfterRun with the events of a failed fetch behind ALERT_ON_EMPTY as well
AfterRunGated(at) ==
    LET station_ids == StationIdsOf(at.station_configs)
        status == IF at.branch = "error" THEN "error" ELSE "empty"
        response == CASE at.branch = "error" -> ErrorResponse(at)
                      [] at.branch = "empty" -> EmptyResponse
                      [] OTHER -> OkResponse(at)
    IN  IF at.branch \in {"error", "empty"} /\ at.alert_on_empty
        THEN ToPublish(at,
                       station_alert_events(at.station_configs, at.checked_at,
                                            SourceUrl(at),
                                            AllStatus(station_ids, status), at.err),
                       CollectorReturn(at, response))
        ELSE CollectorReturn(at, response)

\* AfterRun with the events of an empty response sent without regard to
\* ALERT_ON_EMPTY
AfterRunAlwaysAlerting(at) ==
    LET station_ids == StationIdsOf(at.station_configs)
    IN  CASE at.branch = "error" ->
                ToPublish(at,
                          station_alert_events(at.station_configs, at.checked_at,
                                               SourceUrl(at),
                                               AllStatus(station_ids, "error"),
                                               at.err),
                          CollectorReturn(at, ErrorResponse(at)))
          [] at.branch = "empty" ->
                ToPublish(at,
                          station_alert_events(at.station_configs, at.checked_at,
                                               SourceUrl(at),
                                               AllStatus(station_ids, "empty"),
                                               ""),
                          CollectorReturn(at, EmptyResponse))
          [] OTHER -> CollectorReturn(at, OkResponse(at))

\* the handler after write_run, up to its next call or its return
AfterRun(at) ==
    LET station_ids == StationIdsOf(at.station_configs)
    IN  CASE at.branch = "error" ->
                ToPublish(at,
                          station_alert_events(at.station_configs, at.checked_at,
                                               SourceUrl(at),
                                               AllStatus(station_ids, "error"),
                                               at.err),
                          CollectorReturn(at, ErrorResponse(at)))
          [] at.branch = "empty" ->
                IF at.alert_on_empty
                THEN ToPublish(at,
                               station_alert_events(at.station_configs, at.checked_at,
                                                    SourceUrl(at),
                                                    AllStatus(station_ids, "empty"),
                                                    ""),
                               CollectorReturn(at, EmptyResponse))
                ELSE CollectorReturn(at, EmptyResponse)
          [] OTHER -> CollectorReturn(at, OkResponse(at))

RunStatus(at) == at.branch

WriteRun ==
    /\ col.pc = "write_run"
    /\ runs' = write_run(col, RunStatus(col),
                         IF col.branch = "ok" THEN Len(col.metar_list) ELSE 0)
    /\ col' = AfterRun(col)
    /\ UNCHANGED <<stations, owners, alert_state, now, sns, inv, metars, bus, call, admins, adm>>

\* the handler after publish_station_alert_events
AfterEvents(at) ==
    CASE at.branch = "error" -> CollectorReturn(at, ErrorResponse(at))
      [] at.branch = "empty" -> CollectorReturn(at, EmptyResponse)
      [] OTHER -> [at EXCEPT !.pc = "write_metars", !.events = <<>>]

PutEvents ==
    /\ col.pc = "put_events"
    /\ bus' = bus \o col.events
    /\ col' = AfterEvents(col)
    /\ UNCHANGED <<stations, owners, alert_state, now, sns, inv, runs, metars, call, admins, adm>>

WriteMetars ==
    /\ col.pc = "write_metars"
    /\ metars' = write_metars(col.metar_list, col.checked_at)
    /\ col' = [col EXCEPT !.pc = "write_run"]
    /\ UNCHANGED <<stations, owners, alert_state, now, sns, inv, runs, bus, call, admins, adm>>

CollectorStores ==
    \/ WriteRun
    \/ PutEvents
    \/ WriteMetars

(***************************************************************************)
(* Specifications.                                                         *)
(***************************************************************************)
Slots == 1..NumRacers

\* nothing has run outside the router
Quiet ==
    /\ runs = <<>>
    /\ metars = <<>>
    /\ bus = <<>>
    /\ col = <<>>
    /\ call = <<>>
    /\ admins = <<>>
    /\ adm = <<>>

\* the tables as deployed: any station and owner items, no marker yet
Init ==
    /\ stations \in TablesOf(StationIds, StationItems, "station_id")
    /\ owners \in TablesOf(OwnerIds, OwnerItems, "owner_id")
    /\ alert_state = <<>>
    /\ now = 0
    /\ sns = <<>>
    /\ inv = [p \in Slots |-> Idle]
    /\ Quiet

\* Spec: events are handled one at a time, over any content of the tables
Next ==
    \/ Router(1, Details)
    \/ Tick(Times)

Spec == Init /\ [][Next]_vars

\* a station that passes every check but the cooldown, and its owner
LiveStation(cooldown_minutes) ==
    [station_id |-> "KJWY", enabled |-> TRUE, owner_id |-> "o1",
     notify_on |-> "both", cooldown_minutes |-> cooldown_minutes,
     alerts_enabled |-> TRUE]

LiveOwner == [owner_id |-> "o1", topic_arn |-> "arn:o1", alerts_enabled |-> TRUE]

RaceInit ==
    /\ stations = [k \in {"KJWY"} |-> LiveStation(60)]
    /\ owners = [k \in {"o1"} |-> LiveOwner]
    /\ alert_state = <<>>
    /\ now = 0
    /\ sns = <<>>
    /\ inv = [p \in Slots |-> Idle]
    /\ Quiet

\* EditSpec: events are handled one at a time while the administrator
\* re-submits the station with other settings; the owner table is any
EditInit ==
    /\ stations = [k \in {"KJWY"} |-> LiveStation(60)]
    /\ owners \in TablesOf(OwnerIds, OwnerItems, "owner_id")
    /\ alert_state = <<>>
    /\ now = 0
    /\ sns = <<>>
    /\ inv = [p \in Slots |-> Idle]
    /\ Quiet

\* the submissions keep an enabled station routable and differ in its cooldown;
\* a submission that disables the station's alerts may change anything else
EditBodies ==
    {body \in StationBodies :
        /\ body.station_id = "kjwy"
        /\ body.enabled
        /\ body.notify_on \in {"Both", "ERROR"}
        /\ body.alerts_enabled => body.owner_id = " o1" /\ body.notify_on = "Both"
        /\ ~body.alerts_enabled => body.cooldown_minutes = 60}

EditDetails == {d \in Details : d.alerts_enabled = (StatusOf(d) = "error")}

EditNext ==
    \/ Router(1, EditDetails)
    \/ Tick(HalfHours)
    \/ AddStation(EditBodies)

EditSpec == EditInit /\ [][EditNext]_vars

\* RaceSpec: the same event is delivered to every slot, in any interleaving
RaceDetails ==
    {d \in Details : d.station_id = "kjwy" /\ d.status = "error" /\ d.alerts_enabled}

RaceNext ==
    \/ \E p \in Slots : Router(p, RaceDetails)
    \/ Tick(HalfHours)

RaceSpec == RaceInit /\ [][RaceNext]_vars

\* OutageSpec: events for a routable station are handled one at a time while
\* any call to a table may be refused
OutageDetails == {d \in Details : d.alerts_enabled}

OutageNext ==
    \/ Len(sns) < MaxNotifications /\ Start(1, OutageDetails)
    \/ Len(sns) < MaxNotifications /\ GetStationFails(1, OutageDetails)
    \/ GetOwner(1)
    \/ GetOwnerFails(1)
    \/ InCooldown(1)
    \/ InCooldownFails(1)
    \/ Publish(1)
    \/ PublishFails(1)
    \/ UpdateCooldown(1)
    \/ UpdateCooldownFails(1)
    \/ Tick(HalfHours)

OutageSpec == RaceInit /\ [][OutageNext]_vars

\* CollectorSpec: the collector runs against any table of enabled and disabled
\* stations, with ALERT_ON_EMPTY set or not
ScannedItems ==
    [station_id : {"KJWY", "KSLC"},
     enabled : BOOLEAN,
     owner_id : {"o1"},
     notify_on : {"both"},
     cooldown_minutes : {60},
     alerts_enabled : BOOLEAN]

CollectorInit ==
    /\ stations \in TablesOf({"KJWY", "KSLC"}, ScannedItems, "station_id")
    /\ owners = <<>>
    /\ alert_state = <<>>
    /\ now = 0
    /\ sns = <<>>
    /\ inv = [p \in Slots |-> Idle]
    /\ runs = <<>>
    /\ metars = <<>>
    /\ bus = <<>>
    /\ \E alert_on_empty \in BOOLEAN : col = CollectorAt(alert_on_empty)
    /\ call = <<>>
    /\ admins = <<>>
    /\ adm = <<>>

CollectorNext ==
    \/ CollectorStart
    \/ FetchRaises(FetchErrors)
    \/ FetchReturns(XmlBodies(now))
    \/ CollectorStores
    \/ Tick(HalfHours)

CollectorSpec == CollectorInit /\ [][CollectorNext]_vars

\* SystemSpec: the collector runs, the events it has put on the bus are
\* delivered to the router, each any number of times, and the administrator
\* edits and deletes the station and the owner
BusDetails == {bus[n] : n \in 1..Len(bus)}

SystemBodies ==
    {body \in StationBodies :
        /\ body.station_id = "kjwy"
        /\ body.enabled
        /\ body.owner_id = " o1"
        /\ body.notify_on = "Both"
        /\ body.cooldown_minutes = 60}

SystemOwnerBodies ==
    {body \in OwnerBodies :
        body.owner_id = " o1" /\ body.topic_arn = "arn:o1" /\ body.alerts_enabled}

SystemInit ==
    /\ stations = [k \in {"KJWY"} |-> LiveStation(60)]
    /\ owners = [k \in {"o1"} |-> LiveOwner]
    /\ alert_state = <<>>
    /\ now = 0
    /\ sns = <<>>
    /\ inv = [p \in Slots |-> Idle]
    /\ runs = <<>>
    /\ metars = <<>>
    /\ bus = <<>>
    /\ col = CollectorAt(TRUE)
    /\ call = <<>>
    /\ admins = <<>>
    /\ adm = <<>>

\* the service fails, answers with nothing, or reports the station
SystemXmlBodies(at) == {<<>>, <<Element("KJWY", at - HalfHour)>>}

SystemNext ==
    \/ CollectorStart
    \/ FetchRaises({"timed out"})
    \/ FetchReturns(SystemXmlBodies(now))
    \/ CollectorStores
    \/ Start(1, BusDetails)
    \/ GetOwner(1)
    \/ InCooldown(1)
    \/ Publish(1)
    \/ PublishFails(1)
    \/ UpdateCooldown(1)
    \/ AddStation(SystemBodies)
    \/ AddOwner(SystemOwnerBodies)
    \/ DeleteStation({"kjwy"})
    \/ DeleteOwner({"o1"})
    \/ Tick({HalfHour})

SystemSpec == SystemInit /\ [][SystemNext]_vars

(***************************************************************************)
(* PolicySpec: the notify policy helpers on their own.  parse_notify_on is *)
(* applied to a notify_on value as a station item may carry it,            *)
(* should_notify to a status and a policy, parsed or as given, and the     *)
(* handler's checks to a station that differs from a routable one in its   *)
(* notify_on only.                                                         *)
(***************************************************************************)
NotifyOnValues ==
    {"error", "empty", "both", "ERROR", "EMPTY", "Both", "weekly", "ok", ""}

PolicyStatuses == {"error", "empty", "ok", "both", "ERROR", ""}

PolicyCall(value, status) ==
    [pc |-> "arguments", value |-> value, status |-> status,
     notify_on |-> "", answer |-> FALSE, verdict |-> ""]

PolicyInit ==
    /\ stations = <<>>
    /\ owners = <<>>
    /\ alert_state = <<>>
    /\ now = 0
    /\ sns = <<>>
    /\ inv = [p \in Slots |-> Idle]
    /\ runs = <<>>
    /\ metars = <<>>
    /\ bus = <<>>
    /\ col = <<>>
    /\ admins = <<>>
    /\ adm = <<>>
    /\ \E value \in NotifyOnValues, status \in PolicyStatuses :
          call = PolicyCall(value, status)

ParseNotifyOn ==
    /\ call.pc = "arguments"
    /\ call' = [call EXCEPT !.pc = "parsed",
                            !.notify_on = parse_notify_on(call.value)]
    /\ UNCHANGED <<stations, owners, alert_state, now, sns, inv, runs, metars, bus, col, admins, adm>>

\* should_notify on the parsed policy
ShouldNotify ==
    /\ call.pc = "parsed"
    /\ call' = [call EXCEPT !.pc = "answered",
                            !.answer = should_notify(call.status, call.notify_on)]
    /\ UNCHANGED <<stations, owners, alert_state, now, sns, inv, runs, metars, bus, col, admins, adm>>

\* should_notify on the policy as given
ShouldNotifyAsGiven ==
    /\ call.pc = "arguments"
    /\ call' = [call EXCEPT !.pc = "answered",
                            !.notify_on = call.value,
                            !.answer = should_notify(call.status, call.value)]
    /\ UNCHANGED <<stations, owners, alert_state, now, sns, inv, runs, metars, bus, col, admins, adm>>

\* the handler's checks on a station found, enabled and owned, for a valid event
Filter ==
    /\ call.pc = "arguments"
    /\ ValidEvent("KJWY", call.status)
    /\ call' = [call EXCEPT
                    !.pc = "filtered",
                    !.verdict = StationVerdict(
                                    [LiveStation(60) EXCEPT !.notify_on = call.value],
                                    call.status)]
    /\ UNCHANGED <<stations, owners, alert_state, now, sns, inv, runs, metars, bus, col, admins, adm>>

PolicyNext ==
    \/ ParseNotifyOn
    \/ ShouldNotify
    \/ ShouldNotifyAsGiven
    \/ Filter

PolicySpec == PolicyInit /\ [][PolicyNext]_vars

(***************************************************************************)
(* Properties.                                                             *)
(***************************************************************************)
Changed(p) == inv'[p] # inv[p]
KeyOf(slot) == <<StationIdOf(slot.detail), StatusOf(slot.detail)>>
WindowSeconds(cooldown_minutes) == cooldown_minutes * SecondsPerMinute
SameKey(m, key) == m.station_id = key[1] /\ m.status = key[2]

C1_Reasons ==
    <<"invalid-event", "station-not-found", "station-alerts-disabled",
      "notify-policy", "no-owner", "owner-not-found", "owner-alerts-disabled",
      "no-owner-topic", "cooldown">>

\* the number of the first of the nine checks that the event fails on the
\* tables and the clock as they are, 0 if it fails none
C1_FirstFailing(key) ==
    LET sid == key[1]
        st == key[2]
    IN  IF sid = "" \/ st \notin {"error", "empty"} THEN 1
        ELSE IF sid \notin DOMAIN stations THEN 2
        ELSE IF stations[sid].alerts_enabled = FALSE THEN 3
        ELSE IF stations[sid].notify_on \in {"error", "empty"}
                    /\ stations[sid].notify_on # st THEN 4
        ELSE IF stations[sid].owner_id = "" THEN 5
        ELSE IF stations[sid].owner_id \notin DOMAIN owners THEN 6
        ELSE IF owners[stations[sid].owner_id].alerts_enabled = FALSE THEN 7
        ELSE IF owners[stations[sid].owner_id].topic_arn = "" THEN 8
        ELSE IF /\ <<sid, st>> \in DOMAIN alert_state
                /\ now - alert_state[<<sid, st>>].last_notified_epoch
                      < WindowSeconds(stations[sid].cooldown_minutes) THEN 9
        ELSE 0

C1_Step(p) ==
    LET before == inv[p]
        after == inv'[p]
    IN  /\ (Changed(p) /\ after.pc = "done" /\ "skipped" \in DOMAIN after.result)
              => /\ C1_FirstFailing(KeyOf(after)) # 0
                 /\ after.result =
                      [ok |-> TRUE, skipped |-> C1_Reasons[C1_FirstFailing(KeyOf(after))]]
        /\ (Changed(p) /\ after.pc = "done" /\ "skipped" \notin DOMAIN after.result)
              => C1_FirstFailing(KeyOf(after)) = 0
        /\ (Changed(p) /\ before.pc = "in_cooldown")
              => (after.pc = "publish" <=> C1_FirstFailing(KeyOf(before)) = 0)
        /\ (before.pc = "publish" /\ sns' # sns)
              => C1_FirstFailing(KeyOf(before)) = 0

\* C1: with the tables unchanged during the run, every invocation that returns
\* skipped returns the reason of the first of the nine checks, taken in their
\* fixed order, that its event fails; an invocation goes on to dispatch, and a
\* message is published, exactly when its event fails none of them.
C1_FirstFailingCheckDecides == [][\A p \in Slots : C1_Step(p)]_vars

\* an event that fails the notify policy and would also find no owner
C1_Witness ==
    /\ inv[1].pc = "done"
    /\ inv[1].result = Skipped("notify-policy")
    /\ owners = <<>>

C2_Step ==
    /\ alert_state' # alert_state
          => \E p \in Slots :
                /\ inv[p].pc = "update_cooldown"
                /\ inv[p].calls[Len(inv[p].calls)] = "publish_owner_topic"
                /\ \E i \in 1..Len(sns) : SameKey(sns[i], KeyOf(inv[p]))
                /\ \E item \in {alert_state'[KeyOf(inv[p])]} :
                      alert_state' = PutItem(alert_state, KeyOf(inv[p]), item)
    /\ \A p \in Slots :
          (inv'[p].pc = "failed" /\ inv[p].pc # "failed")
              => /\ inv[p].pc = "publish"
                 /\ inv'[p].result = NoResult
                 /\ alert_state' = alert_state
                 /\ sns' = sns

\* after a failed dispatch the event is still outside any cooldown
C2_NotSuppressed ==
    \A p \in Slots :
        inv[p].pc = "failed"
            => LET key == KeyOf(inv[p])
               IN  ~(/\ key \in DOMAIN alert_state
                     /\ now - alert_state[key].last_notified_epoch
                           < WindowSeconds(stations[key[1]].cooldown_minutes))

\* C2: the marker table changes only in the update_cooldown step of an
\* invocation whose own message SNS has accepted, and only at that invocation's
\* key; an invocation whose publish raises ends without a result and without
\* any change to the marker table, so that its event, delivered again, is not
\* in cooldown.
C2_MarkerAfterDispatch == [][C2_Step]_vars /\ []C2_NotSuppressed

\* a dispatch failed while an earlier marker of the same key was in the table
C2_Witness ==
    /\ inv[1].pc = "failed"
    /\ KeyOf(inv[1]) \in DOMAIN alert_state

C3_Step(p) ==
    LET key == KeyOf(inv[p])
        suppressed ==
            /\ key \in DOMAIN alert_state
            /\ now - alert_state[key].last_notified_epoch
                  < stations[key[1]].cooldown_minutes * 60
    IN  (Changed(p) /\ inv[p].pc = "in_cooldown")
            => IF suppressed
               THEN inv'[p].pc = "done" /\ inv'[p].result = Skipped("cooldown")
               ELSE inv'[p].pc = "publish"

\* C3: an event that has passed checks 1-7 is skipped with reason cooldown
\* exactly when a marker of its (station_id, status) is in the table and
\* now - last_notified_epoch < cooldown_minutes * 60; otherwise it goes on to
\* dispatch, also when now - last_notified_epoch equals the window.
C3_CooldownCheck == [][\A p \in Slots : C3_Step(p)]_vars

\* the event arrives exactly one window after the marker and goes on to dispatch
C3_Witness ==
    /\ inv[1].pc = "publish"
    /\ KeyOf(inv[1]) \in DOMAIN alert_state
    /\ stations["KJWY"].cooldown_minutes = 60
    /\ now - alert_state[KeyOf(inv[1])].last_notified_epoch = 60 * 60

\* the same at T + 30 minutes: skipped; and at T + 61 minutes: dispatch
C3_HalfWay ==
    /\ inv[1].pc = "done" /\ inv[1].result = Skipped("cooldown")
    /\ KeyOf(inv[1]) \in DOMAIN alert_state
    /\ stations["KJWY"].cooldown_minutes = 60
    /\ now - alert_state[KeyOf(inv[1])].last_notified_epoch = 30 * 60

C3_Past ==
    /\ inv[1].pc = "publish"
    /\ KeyOf(inv[1]) \in DOMAIN alert_state
    /\ stations["KJWY"].cooldown_minutes = 60
    /\ now - alert_state[KeyOf(inv[1])].last_notified_epoch = 61 * 60

C4_AtMostOnePerWindow ==
    \A i, j \in 1..Len(sns) :
        (i < j /\ SameKey(sns[j], <<sns[i].station_id, sns[i].status>>))
            => sns[j].at - sns[i].at
                  >= WindowSeconds(stations[sns[i].station_id].cooldown_minutes)

C4_Replay(p) ==
    LET key == KeyOf(inv[p])
    IN  (/\ Changed(p)
         /\ inv[p].pc = "in_cooldown"
         /\ \E i \in 1..Len(sns) :
               /\ SameKey(sns[i], key)
               /\ now - sns[i].at < WindowSeconds(stations[key[1]].cooldown_minutes))
            => inv'[p].pc = "done" /\ inv'[p].result = Skipped("cooldown")

\* C4: with one invocation at a time and the tables unchanged, an event that
\* reaches the cooldown check less than one window after a notification of its
\* (station_id, status) is skipped with reason cooldown, and any two
\* notifications of one (station_id, status) are at least one window apart.
C4_IdempotentReplay == [][\A p \in Slots : C4_Replay(p)]_vars /\ []C4_AtMostOnePerWindow

\* the event is delivered again, later in the window, and skipped
C4_Witness ==
    /\ inv[1].pc = "done"
    /\ inv[1].result = Skipped("cooldown")
    /\ \E i \in 1..Len(sns) : SameKey(sns[i], KeyOf(inv[1])) /\ now > sns[i].at

\* the notifications of message i's (station_id, status) in the window that
\* opens with message i
C5_InWindow(i) ==
    {j \in 1..Len(sns) :
        /\ SameKey(sns[j], <<sns[i].station_id, sns[i].status>>)
        /\ sns[i].at <= sns[j].at
        /\ sns[j].at < sns[i].at
                          + WindowSeconds(stations[sns[i].station_id].cooldown_minutes)}

\* C5, as claimed: under any interleaving of invocations that deliver the same
\* event, no more than two notifications fall in one cooldown window.
C5_AtMostTwoPerWindow ==
    \A i \in 1..Len(sns) : Cardinality(C5_InWindow(i)) <= 2

\* C5, amended: under any interleaving of invocations that deliver the same
\* event, no more notifications fall in one cooldown window than invocations
\* can be in flight at once.
C5_AtMostOnePerInvocationInFlight ==
    \A i \in 1..Len(sns) : Cardinality(C5_InWindow(i)) <= NumRacers

\* every slot passed the check before any marker was written
C5_Witness ==
    \E i \in 1..Len(sns) : Cardinality(C5_InWindow(i)) = NumRacers

\* the result, the message and the marker as the event's key, the tables and the
\* clock determine them
C6_Result(key) ==
    IF C1_FirstFailing(key) = 0
    THEN [ok |-> TRUE, notified |-> TRUE, station_id |-> key[1],
          owner_id |-> stations[key[1]].owner_id]
    ELSE [ok |-> TRUE, skipped |-> C1_Reasons[C1_FirstFailing(key)]]

C6_Message(key) ==
    [TopicArn |-> owners[stations[key[1]].owner_id].topic_arn,
     Subject |-> <<"METAR", Upper(key[2]), key[1]>>,
     station_id |-> key[1],
     owner_id |-> stations[key[1]].owner_id,
     status |-> key[2],
     at |-> now]

C6_Marker(key) ==
    [station_id |-> key[1],
     alert_type |-> key[2],
     last_notified_epoch |-> now,
     expires_at |-> now + 30 * 24 * 60 * 60,
     cooldown_minutes |-> stations[key[1]].cooldown_minutes]

C6_Step(p) ==
    LET key == KeyOf(inv[p])
    IN  /\ (Changed(p) /\ inv'[p].pc = "done")
              => inv'[p].result = C6_Result(KeyOf(inv'[p]))
        /\ (Changed(p) /\ inv[p].pc = "publish" /\ inv'[p].pc # "failed")
              => sns' = Append(sns, C6_Message(key))
        /\ (Changed(p) /\ inv[p].pc = "update_cooldown")
              => alert_state' = PutItem(alert_state, key, C6_Marker(key))
        /\ (Changed(p) /\ inv[p].pc \notin {"publish", "update_cooldown"})
              => sns' = sns /\ alert_state' = alert_state

\* C6: the result an invocation returns, the message it publishes and the
\* marker it writes are those that the event's station_id and status, the
\* station, owner and marker tables and the clock determine; the policy
\* snapshot in the event has no part in them.
C6_LiveConfigurationDecides == [][\A p \in Slots : C6_Step(p)]_vars

\* notified although the snapshot says disabled, no owner, errors only, 30 minutes
C6_Witness ==
    /\ inv[1].pc = "done"
    /\ "notified" \in DOMAIN inv[1].result
    /\ ~inv[1].detail.alerts_enabled
    /\ inv[1].detail.owner_id = ""
    /\ inv[1].detail.notify_on = "error" /\ StatusOf(inv[1].detail) = "empty"
    /\ inv[1].detail.cooldown_minutes # stations["KJWY"].cooldown_minutes
    /\ alert_state[KeyOf(inv[1])].cooldown_minutes = stations["KJWY"].cooldown_minutes

C7_Step(p) ==
    LET key == KeyOf(inv[p])
    IN  /\ (Changed(p) /\ inv'[p].pc = "get_owner")
              => inv'[p].cooldown_minutes
                    = stations[KeyOf(inv'[p])[1]].cooldown_minutes
        /\ (Changed(p) /\ inv[p].pc = "get_owner" /\ inv'[p].pc = "in_cooldown")
              => inv'[p].cooldown_minutes = inv[p].cooldown_minutes
        /\ (Changed(p) /\ inv[p].pc = "in_cooldown")
              => ((inv'[p].pc = "done" /\ inv'[p].result = Skipped("cooldown"))
                    <=> /\ key \in DOMAIN alert_state
                        /\ now - alert_state[key].last_notified_epoch
                              < WindowSeconds(inv[p].cooldown_minutes))

\* C7: the window of the cooldown check is the cooldown_minutes that this
\* invocation read from the station table, whatever cooldown_minutes the marker
\* carries: after the administrator changes the station's cooldown_minutes, the
\* next invocation decides with the new value.
C7_WindowFromLiveStation == [][\A p \in Slots : C7_Step(p)]_vars

\* the marker says 60 minutes, the station now 30: dispatch after 30 minutes
C7_Witness ==
    /\ inv[1].pc = "publish"
    /\ KeyOf(inv[1]) \in DOMAIN alert_state
    /\ alert_state[KeyOf(inv[1])].cooldown_minutes = 60
    /\ inv[1].cooldown_minutes = 30
    /\ now - alert_state[KeyOf(inv[1])].last_notified_epoch = 30 * 60

C8_Step(p) ==
    LET key == KeyOf(inv[p])
    IN  /\ (Changed(p) /\ inv[p].pc = "in_cooldown" /\ key \notin DOMAIN alert_state)
              => inv'[p].pc = "publish"
        /\ (Changed(p) /\ inv[p].pc = "update_cooldown")
              => /\ DOMAIN alert_state' = DOMAIN alert_state \cup {key}
                 /\ \A k \in DOMAIN alert_state \ {key} :
                       alert_state'[k] = alert_state[k]

\* C8: an event whose own (station_id, status) has no marker is never skipped
\* with reason cooldown, whatever marker the station's other status has, and the
\* marker written after a notification leaves every other marker as it was.
C8_CooldownPerOutcomeClass == [][\A p \in Slots : C8_Step(p)]_vars

\* an empty event goes to dispatch inside the window of the error marker
C8_Witness ==
    /\ inv[1].pc = "publish"
    /\ KeyOf(inv[1]) = <<"KJWY", "empty">>
    /\ <<"KJWY", "empty">> \notin DOMAIN alert_state
    /\ <<"KJWY", "error">> \in DOMAIN alert_state
    /\ now - alert_state[<<"KJWY", "error">>].last_notified_epoch
          < WindowSeconds(stations["KJWY"].cooldown_minutes)

C9_Invalid(detail) ==
    \/ Upper(detail.station_id) = ""
    \/ Lower(detail.status) \notin {"error", "empty"}

C9_Inv ==
    \A p \in Slots :
        (inv[p].detail # NoItem /\ C9_Invalid(inv[p].detail))
            => /\ inv[p].pc = "done"
               /\ inv[p].result = [ok |-> TRUE, skipped |-> "invalid-event"]
               /\ inv[p].calls = <<>>

C9_Step(p) ==
    (Changed(p) /\ C9_Invalid(inv'[p].detail))
        => UNCHANGED <<stations, owners, alert_state, sns>>

\* C9: an event whose station_id is empty or whose status is neither error nor
\* empty is answered ok with skipped invalid-event: the invocation returns, makes
\* no call to a table or to SNS, and leaves the tables and SNS as they were.
C9_InvalidEventSkipped == []C9_Inv /\ [][\A p \in Slots : C9_Step(p)]_vars

\* an ok event for a station that is in the table and would pass the checks
C9_Witness ==
    /\ inv[1].pc = "done"
    /\ inv[1].detail # NoItem
    /\ StatusOf(inv[1].detail) = "ok"
    /\ "KJWY" \in DOMAIN stations
    /\ stations["KJWY"].alerts_enabled

C10_Step(p) ==
    LET key == KeyOf(inv'[p])
    IN  (/\ Changed(p)
         /\ inv[p].pc \in {"idle", "done", "failed"}
         /\ key[1] # "" /\ key[2] \in {"error", "empty"}
         /\ key[1] \in DOMAIN stations
         /\ ~stations[key[1]].alerts_enabled)
            => /\ inv'[p].pc = "done"
               /\ inv'[p].result = Skipped("station-alerts-disabled")

\* C10: a valid event whose station item has alerts_enabled false is skipped
\* with reason station-alerts-disabled, whatever the station's owner_id and
\* notify_on, the owner table and the marker table hold.
C10_StationKillSwitch == [][\A p \in Slots : C10_Step(p)]_vars

\* disabled after a notification: the marker is there, the owner is not
C10_Witness ==
    /\ inv[1].pc = "done"
    /\ inv[1].result = Skipped("station-alerts-disabled")
    /\ KeyOf(inv[1]) \in DOMAIN alert_state
    /\ stations["KJWY"].owner_id = ""
    /\ stations["KJWY"].notify_on = "error" /\ KeyOf(inv[1])[2] = "empty"

\* C11, as claimed: parse_notify_on maps error, empty and both to themselves
\* and every other value to both; should_notify is true exactly when the status
\* is error or empty and the policy is both or the status.
C11_EveryOtherValueIsBoth ==
    /\ call.pc = "parsed"
          => call.notify_on = (IF call.value \in {"error", "empty", "both"}
                               THEN call.value ELSE "both")
    /\ call.pc = "answered"
          => (call.answer <=> /\ call.status \in {"error", "empty"}
                              /\ (call.notify_on = "both" \/ call.notify_on = call.status))

\* the policy a notify_on value stands for, letter case apart
C11_Policy(value) ==
    IF value \in {"error", "ERROR"} THEN "error"
    ELSE IF value \in {"empty", "EMPTY"} THEN "empty"
    ELSE "both"

\* C11, amended: parse_notify_on maps error, empty and both, in any letter
\* case, to their lower-case form and every other value, the missing one
\* included, to both; should_notify is true exactly when the status is error or
\* empty and the policy is both or the status; so a station with notify_on
\* error skips an empty event with reason notify-policy, and a station with
\* notify_on both lets error and empty events pass the filter.
C11_NotifyPolicyFilter ==
    /\ call.pc = "parsed" => call.notify_on = C11_Policy(call.value)
    /\ call.pc = "answered"
          => (call.answer <=> /\ call.status \in {"error", "empty"}
                              /\ (call.notify_on = "both" \/ call.notify_on = call.status))
    /\ call.pc = "filtered"
          => /\ (C11_Policy(call.value) = "error" /\ call.status = "empty")
                    => call.verdict = "notify-policy"
             /\ C11_Policy(call.value) = "both" => call.verdict = ""
             /\ call.verdict = "notify-policy"
                    <=> C11_Policy(call.value) \notin {"both", call.status}

\* a station whose notify_on reads ERROR skips an empty event
C11_Witness ==
    /\ call.pc = "filtered"
    /\ call.value = "ERROR"
    /\ call.status = "empty"
    /\ call.verdict = "notify-policy"

C12_Calls ==
    <<"get_station", "get_owner", "in_cooldown", "publish_owner_topic",
      "update_cooldown">>

C12_Step(p) ==
    LET key == KeyOf(inv[p])
        owner_id == stations[key[1]].owner_id
    IN  /\ (Changed(p) /\ inv[p].pc = "publish" /\ inv'[p].pc = "update_cooldown")
              => /\ Len(sns') = Len(sns) + 1
                 /\ SubSeq(sns', 1, Len(sns)) = sns
                 /\ sns'[Len(sns')].TopicArn = owners[owner_id].topic_arn
                 /\ sns'[Len(sns')].station_id = key[1]
                 /\ sns'[Len(sns')].status = key[2]
        /\ (Changed(p) /\ inv[p].pc # "publish") => sns' = sns
        /\ (Changed(p) /\ inv[p].pc = "update_cooldown")
              => /\ inv'[p].pc = "done"
                 /\ inv'[p].result = [ok |-> TRUE, notified |-> TRUE,
                                      station_id |-> key[1], owner_id |-> owner_id]
                 /\ key \in DOMAIN alert_state'
                 /\ alert_state'[key].last_notified_epoch = now
        /\ (Changed(p) /\ inv'[p].pc = "done" /\ "notified" \in DOMAIN inv'[p].result)
              => /\ inv[p].pc = "update_cooldown"
                 /\ inv'[p].calls = C12_Calls

\* C12: an invocation whose event passes every check and whose publish is
\* accepted publishes exactly one message, to the topic of the owner that the
\* station item names, returns ok, notified, the station_id and that owner_id,
\* and leaves a marker of its (station_id, status) whose last_notified_epoch is
\* the clock reading at which it was written.
C12_SuccessfulPath == [][\A p \in Slots : C12_Step(p)]_vars

\* a second notification, after the window, has refreshed the marker
C12_Witness ==
    /\ inv[1].pc = "done"
    /\ "notified" \in DOMAIN inv[1].result
    /\ Len(sns) = 2
    /\ alert_state[KeyOf(inv[1])].last_notified_epoch = now
    /\ now > 0
    /\ inv[1].detail.owner_id # inv[1].result.owner_id

C13_Inv ==
    \A p \in Slots :
        (inv[p].pc = "done" /\ "skipped" \in DOMAIN inv[p].result)
            => /\ inv[p].result.skipped \in {C1_Reasons[i] : i \in 1..9}
               /\ \A i \in 1..Len(inv[p].calls) :
                     inv[p].calls[i] \in {"get_station", "get_owner", "in_cooldown"}

C13_Step(p) ==
    (Changed(p) /\ inv[p].pc \notin {"publish", "update_cooldown"})
        => alert_state' = alert_state /\ sns' = sns

\* C13: an invocation that returns skipped, for any of the nine reasons, has
\* called neither publish_owner_topic nor update_cooldown, and every step of it
\* left the marker table and the topic as they were.
C13_SkippedWritesNothing == []C13_Inv /\ [][\A p \in Slots : C13_Step(p)]_vars

\* the owner has no topic_arn: skipped, and the marker table is still empty
C13_Witness ==
    /\ inv[1].pc = "done"
    /\ inv[1].result = Skipped("no-owner-topic")
    /\ inv[1].calls = <<"get_station", "get_owner">>
    /\ alert_state = <<>>
    /\ sns = <<>>

\* C14, as claimed: every result returned has ok true and a boolean notified,
\* true with station_id and owner_id when a notification was dispatched, false
\* with a skipped reason otherwise.
C14_NotifiedAlwaysPresent ==
    \A p \in Slots :
        inv[p].pc = "done"
            => /\ inv[p].result.ok = TRUE
               /\ "notified" \in DOMAIN inv[p].result
               /\ inv[p].result.notified \in BOOLEAN
               /\ inv[p].result.notified
                     => {"station_id", "owner_id"} \subseteq DOMAIN inv[p].result
               /\ ~inv[p].result.notified => "skipped" \in DOMAIN inv[p].result

C14_Dispatched(slot) ==
    \E i \in 1..Len(slot.calls) : slot.calls[i] = "publish_owner_topic"

\* C14, amended: every result returned has ok true and is one of two records:
\* ok, notified true, station_id and owner_id when a notification was
\* dispatched; ok and a skipped reason, one of the nine, and no notified field
\* when none was.
C14_ResultContract ==
    \A p \in Slots :
        inv[p].pc = "done"
            => /\ inv[p].result.ok = TRUE
               /\ IF C14_Dispatched(inv[p])
                  THEN /\ DOMAIN inv[p].result
                             = {"ok", "notified", "station_id", "owner_id"}
                       /\ inv[p].result.notified = TRUE
                       /\ inv[p].result.station_id = KeyOf(inv[p])[1]
                       /\ inv[p].result.owner_id \in OwnerIds
                  ELSE /\ DOMAIN inv[p].result = {"ok", "skipped"}
                       /\ inv[p].result.skipped \in {C1_Reasons[i] : i \in 1..9}

\* a notification and then, for the same event, a skipped result
C14_Witness ==
    /\ inv[1].pc = "done"
    /\ inv[1].result = [ok |-> TRUE, skipped |-> "cooldown"]
    /\ Len(sns) = 1

C15_StoreCalls == {"get_station", "get_owner", "in_cooldown", "update_cooldown"}

\* the invocation in the slot ended in a refused call to a table
C15_StoreFailed(slot) ==
    /\ slot.pc = "failed"
    /\ slot.calls[Len(slot.calls)] \in {<<name, "raised">> : name \in C15_StoreCalls}

\* the last message of the key, and a marker written at or after it
C15_LastMessage(key) ==
    CHOOSE i \in 1..Len(sns) :
        /\ SameKey(sns[i], key)
        /\ \A j \in i + 1..Len(sns) : ~SameKey(sns[j], key)

C15_Marked(key) ==
    /\ key \in DOMAIN alert_state
    /\ alert_state[key].last_notified_epoch >= sns[C15_LastMessage(key)].at

C15_Fatal(p) ==
    (Changed(p) /\ C15_StoreFailed(inv'[p]))
        => /\ inv'[p].result = NoResult
           /\ UNCHANGED <<stations, owners, alert_state, sns>>

C15_NoMarkerWithoutNotification ==
    \A key \in DOMAIN alert_state :
        \E i \in 1..Len(sns) :
            /\ SameKey(sns[i], key)
            /\ sns[i].at <= alert_state[key].last_notified_epoch

\* C15, as claimed: an invocation in which a call to a table is refused ends
\* without a result, and leaves neither a notification of its own without the
\* marker nor a marker without a notification.
C15_NoPartialDecision ==
    /\ \A p \in Slots :
          C15_StoreFailed(inv[p])
              => /\ inv[p].result = NoResult
                 /\ C14_Dispatched(inv[p]) => C15_Marked(KeyOf(inv[p]))
    /\ C15_NoMarkerWithoutNotification

C15_Inv ==
    /\ \A p \in Slots :
          C15_StoreFailed(inv[p])
              => /\ inv[p].result = NoResult
                 /\ C14_Dispatched(inv[p])
                       <=> inv[p].calls[Len(inv[p].calls)] = <<"update_cooldown", "raised">>
    /\ \A p \in Slots :
          (inv[p].pc = "done" /\ "skipped" \in DOMAIN inv[p].result)
              => inv[p].result.skipped \in {C1_Reasons[i] : i \in 1..9}
    /\ C15_NoMarkerWithoutNotification

\* C15, amended: an invocation in which a call to a table is refused ends
\* without a result, no result returned reports a refused call as a skip, and
\* the refused call changes no table; the invocation has dispatched
\* nothing when the refused call is get_station, get_owner or in_cooldown, and
\* has dispatched its notification and written no marker for it when the
\* refused call is update_cooldown; no marker is ever without a notification.
C15_StorageUnavailable == []C15_Inv /\ [][\A p \in Slots : C15_Fatal(p)]_vars

\* the marker write was refused after the first notification of the key
C15_Witness ==
    /\ inv[1].pc = "failed"
    /\ inv[1].calls[Len(inv[1].calls)] = <<"update_cooldown", "raised">>
    /\ Len(sns) = 1
    /\ alert_state = <<>>

\* the stations the collector is configured with: the enabled stations of the
\* table, in the order of their ids, or the station of STATION_IDS
C17_Configured ==
    LET enabled == {k \in DOMAIN stations : stations[k].enabled}
    IN  IF enabled = {} THEN <<"KJWY">>
        ELSE IF enabled = {"KJWY", "KSLC"} THEN <<"KJWY", "KSLC">>
        ELSE <<CHOOSE k \in enabled : TRUE>>

C17_Step ==
    /\ (col.pc = "fetch_xml" /\ col'.branch = "error")
          => col'.pc = "write_run" /\ col'.err \in FetchErrors
    /\ (col.pc = "write_run" /\ col.branch = "error" /\ col' # col)
          => /\ col.checked_at \in DOMAIN runs'
             /\ runs'[col.checked_at].status = "error"
             /\ runs'[col.checked_at].error_message = col.err
             /\ col'.pc = "put_events"
             /\ bus' = bus
    /\ (col.pc = "put_events" /\ col.branch = "error" /\ col' # col)
          => /\ Len(bus') = Len(bus) + Len(C17_Configured)
             /\ SubSeq(bus', 1, Len(bus)) = bus
             /\ \A n \in 1..Len(C17_Configured) :
                   /\ bus'[Len(bus) + n].station_id = C17_Configured[n]
                   /\ bus'[Len(bus) + n].status = "error"
                   /\ bus'[Len(bus) + n].error_message = col.err
                   /\ bus'[Len(bus) + n].checked_at_utc = col.checked_at
             /\ col'.pc = "done"
             /\ col'.response.statusCode = 502
             /\ col'.response.status = "error"

\* C17: when fetch_xml or parse_metar_xml raises, the run is written with
\* status error and the error message, and then one event for every configured
\* station, in order, each with status error and that same message, is put on
\* the bus, whether ALERT_ON_EMPTY is set or not; the handler answers 502.
C17_WholeBatchFailure == [][C17_Step]_vars

\* two enabled stations, ALERT_ON_EMPTY unset, and the fetch raised
C17_Witness ==
    /\ col.pc = "done"
    /\ col.branch = "error"
    /\ ~col.alert_on_empty
    /\ Len(bus) = 2
    /\ bus[1].station_id = "KJWY" /\ bus[2].station_id = "KSLC"
    /\ bus[1].status = "error" /\ bus[2].status = "error"
    /\ runs[col.checked_at].status = "error"

\* the configured stations without a record among those parsed, in order
C18_Missing(metar_list) ==
    LET NoRecord(sid) == \A n \in 1..Len(metar_list) : metar_list[n].station_id # sid
    IN  SelectSeq(C17_Configured, NoRecord)

C18_Step ==
    /\ (col.pc = "fetch_xml" /\ col'.branch = "ok")
          => LET missing == C18_Missing(col'.metar_list)
             IN  /\ col'.metar_list # <<>>
                 /\ IF col.alert_on_empty /\ missing # <<>>
                    THEN /\ col'.pc = "put_events"
                         /\ Len(col'.events) = Len(missing)
                         /\ \A n \in 1..Len(missing) :
                               /\ col'.events[n].station_id = missing[n]
                               /\ col'.events[n].status = "empty"
                    ELSE col'.pc = "write_metars" /\ col'.events = <<>>
    /\ (col.pc = "put_events" /\ col.branch = "ok" /\ col' # col)
          => bus' = bus \o col.events
    /\ (col.pc # "put_events") => bus' = bus

C18_NeverOk ==
    \A n \in 1..Len(bus) : bus[n].status \in {"error", "empty"}

C19_Step ==
    /\ (col.pc = "fetch_xml" /\ col'.branch = "empty")
          => col'.pc = "write_run" /\ col'.metar_list = <<>>
    /\ (col.pc = "write_run" /\ col.branch = "empty" /\ col' # col)
          => /\ col.checked_at \in DOMAIN runs'
             /\ runs'[col.checked_at].status = "empty"
             /\ runs'[col.checked_at].metar_count = 0
             /\ bus' = bus
             /\ IF col.alert_on_empty
                THEN /\ col'.pc = "put_events"
                     /\ Len(col'.events) = Len(C17_Configured)
                     /\ \A n \in 1..Len(C17_Configured) :
                           /\ col'.events[n].station_id = C17_Configured[n]
                           /\ col'.events[n].status = "empty"
                ELSE /\ col'.pc = "done"
                     /\ col'.response = [statusCode |-> 200, status |-> "empty",
                                         count |-> 0]
    /\ (col.pc = "put_events" /\ col.branch = "empty" /\ col' # col)
          => /\ col.alert_on_empty
             /\ bus' = bus \o col.events
             /\ col'.pc = "done"
             /\ col'.response = [statusCode |-> 200, status |-> "empty", count |-> 0]

\* C19: after a response that parses to no record the run is written with
\* status empty; with ALERT_ON_EMPTY set one event with status empty for every
\* configured station is then put on the bus, with it unset the handler returns
\* without putting any; the answer is 200 with status empty.
C19_ZeroRecords == [][C19_Step]_vars

\* ALERT_ON_EMPTY unset: the run is recorded empty and the bus stays empty
C19_Witness ==
    /\ col.pc = "done"
    /\ col.branch = "empty"
    /\ ~col.alert_on_empty
    /\ runs[col.checked_at].status = "empty"
    /\ bus = <<>>

\* ALERT_ON_EMPTY set: an event with status empty for each of two stations
C19_Alerted ==
    /\ col.pc = "done"
    /\ col.branch = "empty"
    /\ col.alert_on_empty
    /\ Len(bus) = 2
    /\ bus[1].status = "empty" /\ bus[2].status = "empty"

\* the configured stations whose records, as parsed in this invocation, are
\* all older than the staleness threshold at the time of collection
C20_Stale(at) ==
    LET RecordsOf(sid) ==
            {n \in 1..Len(at.metar_list) : at.metar_list[n].station_id = sid}
    IN  {sid \in {at.station_configs[n].station_id : n \in 1..Len(at.station_configs)} :
            /\ RecordsOf(sid) # {}
            /\ \A n \in RecordsOf(sid) :
                  at.checked_at - at.metar_list[n].observation_time
                      > StaleThresholdHours * 60 * SecondsPerMinute}

\* C20: with a staleness threshold configured, a run in which the records of
\* a configured station are older than the threshold at collection time puts an
\* event with status error for that station on the bus and is recorded with
\* status error, while the handler answers 200 with status ok.
C20_StaleIsError ==
    (col.pc = "done" /\ col.branch = "ok" /\ C20_Stale(col) # {})
        => /\ runs[col.checked_at].status = "error"
           /\ \A sid \in C20_Stale(col) :
                 \E n \in 1..Len(bus) :
                     /\ bus[n].station_id = sid
                     /\ bus[n].status = "error"
                     /\ bus[n].checked_at_utc = col.checked_at
           /\ col.response.statusCode = 200
           /\ col.response.status = "ok"

C16_RouterStep == inv' # inv
C16_CollectorStep == col' # col
C16_AdminStep == stations' # stations \/ owners' # owners

C16_Step ==
    /\ C16_RouterStep => UNCHANGED <<stations, owners, runs, metars, bus>>
    /\ alert_state' # alert_state
          => /\ \E p \in Slots : inv[p].pc = "update_cooldown" /\ inv'[p].pc = "done"
             /\ ~C16_CollectorStep
             /\ ~C16_AdminStep
    /\ C16_CollectorStep => UNCHANGED <<alert_state, stations, owners, sns>>
    /\ C16_AdminStep => UNCHANGED <<alert_state, runs, metars, bus, sns>>

\* C16: a step of a router invocation leaves the station table, the owner
\* table, the run log, the METAR table and the bus as they were, and the marker
\* table changes only in the update_cooldown step of a router invocation: no
\* step of the collector and no operation of the administrator changes it.
C16_StoreOwnership == [][C16_Step]_vars

\* the collector has run, the router has notified and written its marker, and
\* the administrator has deleted the station and the owner since
C16_Witness ==
    /\ runs # <<>>
    /\ <<"KJWY", "error">> \in DOMAIN alert_state
    /\ Len(sns) = 1
    /\ stations = <<>>
    /\ owners = <<>>

(***************************************************************************)
(* AdminSpec: requests to the admin handler, one at a time, while the      *)
(* clock advances.  The sessions presented were issued by the handler      *)
(* fifteen half hours before the start or at the start, or were made       *)
(* without the secret of the deployment.                                   *)
(***************************************************************************)
IssuedTokens ==
    {new_session_token("admin", DefaultTtlMinutes, at).token :
        at \in {HalfHour - DefaultTtlMinutes * SecondsPerMinute, 0}}

\* the payload of a session of admin that ends with the sixteenth half hour
LongPayloadPart == b64url_encode(json_dumps(SessionPayload("admin", 16 * HalfHour)))

AdminHeaders ==
    {NoHeaders,
     [scheme |-> "Bearer", token |-> SignedToken("old-secret", LongPayloadPart)],
     [scheme |-> "Bearer", token |-> <<LongPayloadPart>>]}
        \cup [scheme : {"Bearer"}, token : IssuedTokens]
        \cup [scheme : {"Basic"},
              token : {new_session_token("admin", DefaultTtlMinutes, 0).token}]

Event(method, kind, path, headers, body) ==
    [method |-> method, kind |-> kind, path |-> path, headers |-> headers,
     body |-> body]

Bootstrap(username, password) ==
    [json |-> [action |-> "bootstrap", username |-> username, password |-> password]]

Login(action, username, password) ==
    [json |-> [action |-> action, username |-> username, password |-> password]]

RequestReset(username) == [json |-> [action |-> "request_reset", username |-> username]]

ConfirmReset(username, reset_code, new_password) ==
    [json |-> [action |-> "confirm_reset", username |-> username,
               reset_code |-> reset_code, new_password |-> new_password]]

\* what is sent without a session
AdminPublicBodies ==
    {Bootstrap(" admin", "StrongPass123!"),
     Login("login", "admin", "StrongPass123!"),
     Login("LOGIN", "admin", "OtherPass1234!"),
     RequestReset("admin")}

MaintenanceBodies ==
    {[text |-> "{"],
     [json |-> [station_id |-> "kjwy", notify_on |-> "ERROR"]],
     [json |-> [station_id |-> "kjwy", notify_on |-> "weekly"]],
     [json |-> [notify_on |-> "weekly"]]}

AdminEvents ==
    {Event("POST", "", <<>>, NoHeaders, body) : body \in AdminPublicBodies}
      \cup {Event("POST", "", <<>>, headers, body) :
               headers \in AdminHeaders, body \in MaintenanceBodies}
      \cup {Event("POST", "Owners", <<>>, headers,
                  [json |-> [action |-> "logout", owner_id |-> " o1",
                             topic_arn |-> "arn:o1"]]) :
               headers \in AdminHeaders}
      \cup {Event("GET", kind, <<>>, headers, NoBody) :
               kind \in {"", "Owners"}, headers \in AdminHeaders}
      \cup {Event("PUT", "", <<>>, headers, NoBody) : headers \in AdminHeaders}
      \cup {Event("OPTIONS", "", <<>>, NoHeaders, NoBody)}
      \cup {Event("DELETE", "", path, headers, NoBody) :
               path \in {[station_id |-> "kjwy"], [owner_id |-> " o1"]},
               headers \in AdminHeaders}

AdminInit ==
    /\ stations = [k \in {"KJWY"} |-> LiveStation(60)]
    /\ owners = [k \in {"o1"} |-> LiveOwner]
    /\ alert_state = <<>>
    /\ now = 0
    /\ sns = <<>>
    /\ inv = [p \in Slots |-> Idle]
    /\ runs = <<>>
    /\ metars = <<>>
    /\ bus = <<>>
    /\ col = <<>>
    /\ call = <<>>
    /\ admins = <<>>
    /\ adm = AdminIdle

AdminNext ==
    \/ Handle(AdminEvents, {"a1"}, {"000001"})
    \/ Tick({HalfHour})

AdminSpec == AdminInit /\ [][AdminNext]_vars

(***************************************************************************)
(* LoginSpec: the requests that need no session, one at a time, while the  *)
(* clock advances.                                                         *)
(***************************************************************************)
LoginBodies ==
    {Bootstrap(" admin", "StrongPass123!"),
     Bootstrap("mallory", "short"),
     Login("login", "admin", "StrongPass123!"),
     Login("LOGIN", " admin", "StrongPass123!"),
     Login("login", "admin", "OtherPass1234!"),
     Login("login", "mallory", "StrongPass123!"),
     Login("login", "admin", ""),
     Login("login", "", "StrongPass123!"),
     RequestReset("admin"),
     ConfirmReset("admin", "000001", "OtherPass1234!"),
     ConfirmReset("admin", "000001", "short")}

LoginEvents == {Event("POST", "", <<>>, NoHeaders, body) : body \in LoginBodies}

LoginNext ==
    \/ Handle(LoginEvents, Salts, ResetCodes)
    \/ Tick(HalfHours)

LoginSpec == AdminInit /\ [][LoginNext]_vars

(***************************************************************************)
(* TokenSpec: new_session_token for a username and a ttl, at some time,    *)
(* and verify_session_token, at later times, on the token issued and on    *)
(* tokens made from it.                                                    *)
(***************************************************************************)
TokenUsernames == {"admin", " admin", ""}
TtlChoices == {0, 30, 60}

\* the token without its dot, signed with another secret, with the signature
\* of another payload, and with a second dot
Tampered(token) ==
    {<<token[1]>>,
     SignedToken("old-secret", token[1]),
     <<LongPayloadPart, token[2]>>,
     token \o <<token[2]>>}

TokenInit ==
    /\ stations = <<>>
    /\ owners = <<>>
    /\ alert_state = <<>>
    /\ now = 0
    /\ sns = <<>>
    /\ inv = [p \in Slots |-> Idle]
    /\ runs = <<>>
    /\ metars = <<>>
    /\ bus = <<>>
    /\ col = <<>>
    /\ admins = <<>>
    /\ adm = <<>>
    /\ \E username \in TokenUsernames, ttl_minutes \in TtlChoices :
          call = [pc |-> "arguments", username |-> username,
                  ttl_minutes |-> ttl_minutes]

NewSessionToken ==
    /\ call.pc = "arguments"
    /\ LET session == new_session_token(call.username, call.ttl_minutes, now)
       IN  call' = [pc |-> "issued", username |-> call.username,
                    ttl_minutes |-> call.ttl_minutes, issued_at |-> now,
                    token |-> session.token, exp |-> session.exp]
    /\ UNCHANGED <<stations, owners, alert_state, now, sns, inv, runs, metars, bus, col, admins, adm>>

VerifySessionToken ==
    /\ call.pc \in {"issued", "verified"}
    /\ \E presented \in {call.token} \cup Tampered(call.token) :
          call' = [pc |-> "verified", username |-> call.username,
                   ttl_minutes |-> call.ttl_minutes, issued_at |-> call.issued_at,
                   token |-> call.token, exp |-> call.exp,
                   presented |-> presented, at |-> now,
                   value |-> verify_session_token(presented, now)]
    /\ UNCHANGED <<stations, owners, alert_state, now, sns, inv, runs, metars, bus, col, admins, adm>>

TokenNext ==
    \/ NewSessionToken
    \/ VerifySessionToken
    \/ Tick(Times)

TokenSpec == TokenInit /\ [][TokenNext]_vars

(***************************************************************************)
(* History: parse_limit.  A limit is absent or a text; int() reads the     *)
(* texts that are a decimal integer, with a sign or blanks around it, and  *)
(* raises ValueError on the others.                                        *)
(***************************************************************************)
MaxLimit == 500

NoLimit == [present |-> FALSE]

LimitText(text) == [present |-> TRUE, text |-> text]

\* the texts int() reads, with their values
IntegerTexts ==
    {<<"-1000", -1000>>, <<"-1", -1>>, <<"0", 0>>, <<"1", 1>>, <<"2", 2>>,
     <<"168", 168>>, <<"499", 499>>, <<"500", 500>>, <<"501", 501>>,
     <<"1000", 1000>>, <<" 7", 7>>, <<"+5", 5>>, <<"1_000", 1000>>}

OtherTexts == {"", "bad", "1.5", "12a", "0x10", "1e3", "-", "five"}

IsInteger(text) == \E pair \in IntegerTexts : pair[1] = text

IntOf(text) == (CHOOSE pair \in IntegerTexts : pair[1] = text)[2]

Min(a, b) == IF a < b THEN a ELSE b
Max(a, b) == IF a > b THEN a ELSE b

\* parse_limit that caps the limit but takes it as low as it is given
parse_limit_uncapped_below(value, default_value) ==
    IF ~value.present \/ value.text = "" THEN default_value
    ELSE IF ~IsInteger(value.text) THEN default_value
    ELSE Min(IntOf(value.text), MaxLimit)

parse_limit(value, default_value) ==
    IF ~value.present \/ value.text = "" THEN default_value
    ELSE IF ~IsInteger(value.text) THEN default_value
    ELSE Max(1, Min(IntOf(value.text), MaxLimit))

LimitValues ==
    {NoLimit} \cup {LimitText(pair[1]) : pair \in IntegerTexts}
              \cup {LimitText(text) : text \in OtherTexts}

\* the default of the handler, and others
DefaultLimits == {1, 168, 1000}

HistoryInit ==
    /\ stations = <<>>
    /\ owners = <<>>
    /\ alert_state = <<>>
    /\ now = 0
    /\ sns = <<>>
    /\ inv = [p \in Slots |-> Idle]
    /\ runs = <<>>
    /\ metars = <<>>
    /\ bus = <<>>
    /\ col = <<>>
    /\ admins = <<>>
    /\ adm = <<>>
    /\ \E value \in LimitValues, default_value \in DefaultLimits :
          call = [pc |-> "arguments", value |-> value,
                  default_value |-> default_value]

ParseLimit ==
    /\ call.pc = "arguments"
    /\ call' = [pc |-> "answered", value |-> call.value,
                default_value |-> call.default_value,
                limit |-> parse_limit(call.value, call.default_value)]
    /\ UNCHANGED <<stations, owners, alert_state, now, sns, inv, runs, metars, bus, col, admins, adm>>

HistoryNext == ParseLimit

HistorySpec == HistoryInit /\ [][HistoryNext]_vars

(***************************************************************************)
(* RetentionSpec: events for one station and status, one at a time, over   *)
(* the thirty days of a marker and beyond, while the table drops the       *)
(* markers whose expires_at has passed.  The station's cooldown is an      *)
(* hour, thirty days, or an hour more than thirty days.                    *)
(***************************************************************************)
MinutesPerDay == 24 * 60
RetentionCooldowns == {60, 30 * MinutesPerDay, 30 * MinutesPerDay + 60}

RetentionTimes ==
    {HalfHour, MarkerRetentionSeconds, MarkerRetentionSeconds + HalfHour,
     MarkerRetentionSeconds + 3 * HalfHour}

\* time to live: an item is dropped some time after its expires_at
Expire ==
    /\ \E k \in DOMAIN alert_state :
          /\ alert_state[k].expires_at < now
          /\ alert_state' = DeleteItem(alert_state, k)
    /\ UNCHANGED <<stations, owners, now, sns, inv, elsewhere>>

RetentionInit ==
    /\ \E cooldown_minutes \in RetentionCooldowns :
          stations = [k \in {"KJWY"} |-> LiveStation(cooldown_minutes)]
    /\ owners = [k \in {"o1"} |-> LiveOwner]
    /\ alert_state = <<>>
    /\ now = 0
    /\ sns = <<>>
    /\ inv = [p \in Slots |-> Idle]
    /\ Quiet

RetentionNext ==
    \/ Router(1, RaceDetails)
    \/ Tick(RetentionTimes)
    \/ Expire

RetentionSpec == RetentionInit /\ [][RetentionNext]_vars

(***************************************************************************)
(* PairSpec: two stations of one owner, with different cooldowns; the      *)
(* error events of the first are delivered to slot 1 and those of the      *)
(* second to slot 2, in any interleaving, while the clock advances.        *)
(***************************************************************************)
OtherStation ==
    [station_id |-> "KSLC", enabled |-> TRUE, owner_id |-> "o1",
     notify_on |-> "both", cooldown_minutes |-> 30, alerts_enabled |-> TRUE]

PairDetails(station_id) ==
    {Detail(station_id, "error", sn) : sn \in {x \in Snapshots : x.alerts_enabled}}

PairInit ==
    /\ stations = [k \in {"KJWY", "KSLC"} |->
                      IF k = "KJWY" THEN LiveStation(60) ELSE OtherStation]
    /\ owners = [k \in {"o1"} |-> LiveOwner]
    /\ alert_state = <<>>
    /\ now = 0
    /\ sns = <<>>
    /\ inv = [p \in Slots |-> Idle]
    /\ Quiet

PairNext ==
    \/ Router(1, PairDetails("KJWY"))
    \/ Router(2, PairDetails("KSLC"))
    \/ Tick(HalfHours)

PairSpec == PairInit /\ [][PairNext]_vars

(***************************************************************************)
(* NoCooldownSpec: the station was stored with a cooldown of zero or of a  *)
(* negative number of minutes (add_station stores any integer); its events *)
(* are handled by two invocations, one after the other or interleaved.     *)
(***************************************************************************)
NoCooldowns == {0, -30}

NoCooldownSlots == {1, 2}

NoCooldownInit ==
    /\ \E cooldown_minutes \in NoCooldowns :
          stations = [k \in {"KJWY"} |-> LiveStation(cooldown_minutes)]
    /\ owners = [k \in {"o1"} |-> LiveOwner]
    /\ alert_state = <<>>
    /\ now = 0
    /\ sns = <<>>
    /\ inv = [p \in Slots |-> Idle]
    /\ Quiet

NoCooldownNext ==
    \/ \E p \in NoCooldownSlots : Len(sns) < MaxNotifications /\ Start(p, RaceDetails)
    \/ \E p \in NoCooldownSlots : GetOwner(p)
    \/ \E p \in NoCooldownSlots : InCooldown(p)
    \/ \E p \in NoCooldownSlots : Publish(p)
    \/ \E p \in NoCooldownSlots : PublishFails(p)
    \/ \E p \in NoCooldownSlots : UpdateCooldown(p)
    \/ Tick(HalfHours)

NoCooldownSpec == NoCooldownInit /\ [][NoCooldownNext]_vars

(***************************************************************************)
(* BootstrapSpec: bootstrap requests handled by two invocations of the     *)
(* admin function, one after the other or interleaved.  bootstrap_admin is *)
(* cut between the scan of is_bootstrapped and its put_item; here adm      *)
(* holds one record per invocation.                                        *)
(***************************************************************************)
BootstrapInvocations == {1, 2}

BootstrapBodies ==
    {[username |-> u, password |-> pw] :
        u \in {"admin", "root"}, pw \in {"StrongPass123!", "short", ""}}

BootstrapIdle == [pc |-> "idle", body |-> <<>>, salt_hex |-> "", result |-> <<>>]

\* bootstrap_admin up to its put_item: the scan, then the checks of the body
BootstrapScan(i, bodies, salts) ==
    /\ adm[i].pc \in {"idle", "done"}
    /\ \E body \in bodies, salt_hex \in salts :
          LET checked == bootstrap_admin(body, salt_hex)
          IN  adm' = [adm EXCEPT ![i] =
                         IF "error" \in DOMAIN checked.result
                         THEN [pc |-> "done", body |-> body, salt_hex |-> salt_hex,
                               result |-> checked.result]
                         ELSE [pc |-> "put_item", body |-> body, salt_hex |-> salt_hex,
                               result |-> <<>>]]
    /\ UNCHANGED <<stations, owners, alert_state, now, sns, inv>>
    /\ UNCHANGED <<runs, metars, bus, col, call, admins>>

\* bootstrap_admin from its put_item: the item is put without a condition,
\* with the clock reading of the put, and the session token is returned
BootstrapPut(i) ==
    /\ adm[i].pc = "put_item"
    /\ LET username == Strip(Get(adm[i].body, "username", ""))
           item == Merge([username |-> username, updated_at_epoch |-> now],
                         create_password_fields(Get(adm[i].body, "password", ""),
                                                adm[i].salt_hex))
           session == new_session_token(username, DefaultTtlMinutes, now)
       IN  /\ admins' = PutItem(admins, username, item)
           /\ adm' = [adm EXCEPT ![i].pc = "done",
                                 ![i].result =
                                     [ok |-> TRUE, bootstrapped |-> TRUE,
                                      token |-> session.token,
                                      expires_at_epoch |-> session.exp]]
    /\ UNCHANGED <<stations, owners, alert_state, now, sns, inv>>
    /\ UNCHANGED <<runs, metars, bus, col, call>>

BootstrapInit ==
    /\ stations = [k \in {"KJWY"} |-> LiveStation(60)]
    /\ owners = [k \in {"o1"} |-> LiveOwner]
    /\ alert_state = <<>>
    /\ now = 0
    /\ sns = <<>>
    /\ inv = [p \in Slots |-> Idle]
    /\ runs = <<>>
    /\ metars = <<>>
    /\ bus = <<>>
    /\ col = <<>>
    /\ call = <<>>
    /\ admins = <<>>
    /\ adm = [i \in BootstrapInvocations |-> BootstrapIdle]

BootstrapNext ==
    \/ \E i \in BootstrapInvocations : BootstrapScan(i, BootstrapBodies, {"a1"})
    \/ \E i \in BootstrapInvocations : BootstrapPut(i)
    \/ Tick({HalfHour})

BootstrapSpec == BootstrapInit /\ [][BootstrapNext]_vars

(***************************************************************************)
(* C21.  The gate of ALERT_ON_EMPTY.                                       *)
(***************************************************************************)
\* the candidate events of the invocation: one for every configured station
\* that is not ok, with the statuses of the arm the handler is in
C21_Candidates(at) ==
    LET station_ids == StationIdsOf(at.station_configs)
        status_by_station ==
            CASE at.branch = "error" -> AllStatus(station_ids, "error")
              [] at.branch = "empty" -> AllStatus(station_ids, "empty")
              [] OTHER -> StationStatuses(station_ids, at.metar_list)
    IN  station_alert_events(at.station_configs, at.checked_at, SourceUrl(at),
                             status_by_station, at.err)

\* the candidates without those with status empty, in their order
C21_Kept(station_events) ==
    LET NotEmpty(e) == e.status # "empty"
    IN  SelectSeq(station_events, NotEmpty)

C21_Step ==
    ~col.alert_on_empty =>
        /\ bus' # bus
              => /\ col.pc = "put_events"
                 /\ col'.pc = "done"
                 /\ bus' = bus \o C21_Kept(C21_Candidates(col))
                 /\ \A n \in 1..Len(col.events) : col.events[n].status = "error"
        /\ (col.pc # "done" /\ col'.pc = "done" /\ bus' = bus)
              => C21_Kept(C21_Candidates(col)) = <<>>

C21_Dropped ==
    /\ ~col.alert_on_empty
    /\ col.pc = "done"
    /\ col.branch = "ok"
    /\ C21_Candidates(col) # <<>>
    /\ bus = <<>>

(***************************************************************************)
(* C22.  The gate of the admin handler.                                    *)
(***************************************************************************)
\* the event carries a session that the handler issued and that has not
\* ended at the time at
C22_ValidSession(event, at) ==
    /\ Lower(event.headers.scheme) = "bearer"
    /\ \E issued \in {HalfHour - DefaultTtlMinutes * SecondsPerMinute, 0} :
          /\ event.headers.token =
                new_session_token("admin", DefaultTtlMinutes, issued).token
          /\ at < issued + DefaultTtlMinutes * SecondsPerMinute

\* the action of a POST, as sent and as the handler reads it
C22_ActionSent(event) ==
    IF event.method = "POST" /\ IsObject(event.body)
    THEN Get(json_loads(event.body), "action", "")
    ELSE ""

C22_Guarded(event) == event.method \in {"GET", "POST", "DELETE"}

C22_Untouched ==
    /\ adm'.calls = <<>>
    /\ stations' = stations
    /\ owners' = owners

C22_Step ==
    adm' # adm =>
        LET event == adm'.event
            public == Lower(C22_ActionSent(event)) \in PublicActions
        IN  /\ public
                  => /\ adm'.response.body # AdminError("Unauthorized")
                     /\ \A n \in 1..Len(adm'.calls) : adm'.calls[n][1] = "admins"
                     /\ stations' = stations
                     /\ owners' = owners
            /\ (C22_Guarded(event) /\ ~public /\ ~C22_ValidSession(event, now))
                  => /\ C22_Untouched
                     /\ admins' = admins
                     /\ IF event.method = "POST" /\ ~IsObject(event.body)
                        THEN adm'.response.statusCode = 500
                        ELSE adm'.response = http_response(401, AdminError("Unauthorized"))

C22_Expired ==
    /\ adm.pc = "done"
    /\ adm.event.method = "GET"
    /\ adm.event.headers.token \in IssuedTokens
    /\ adm.event.headers.scheme = "Bearer"
    /\ adm.response.statusCode = 401

\* a session that has not ended is served
C22_Served ==
    /\ adm.pc = "done"
    /\ adm.event.method = "DELETE"
    /\ adm.response.statusCode = 200
    /\ stations = <<>>

(***************************************************************************)
(* C23.  What add_station lets into the station table.                     *)
(***************************************************************************)
\* the step is a call of add_station: a POST that passed the gate, not for
\* owners
C23_AddStation ==
    /\ adm' # adm
    /\ adm'.event.method = "POST"
    /\ IsObject(adm'.event.body)
    /\ Lower(C22_ActionSent(adm'.event)) \notin PublicActions
    /\ Lower(adm'.event.kind) # "owners"
    /\ adm'.response.statusCode \in {200, 400}

C23_Body == StationBody(json_loads(adm'.event.body))

C23_Refused ==
    /\ adm'.response = http_response(400, AdminError("notify_on must be error|empty|both"))
    /\ adm'.calls = <<>>
    /\ stations' = stations

C23_Step ==
    (C23_AddStation
        /\ Upper(Strip(C23_Body.station_id)) # ""
        /\ Lower(C23_Body.notify_on) \notin {"error", "empty", "both"})
      => C23_Refused

C23_StoredValid ==
    \A k \in DOMAIN stations :
        /\ stations[k].notify_on \in {"error", "empty", "both"}
        /\ stations[k].station_id # ""
        /\ stations[k].station_id = Upper(stations[k].station_id)
        /\ stations[k].station_id = k

C23_Stored ==
    /\ adm.pc = "done"
    /\ adm.event.body = [json |-> [station_id |-> "kjwy", notify_on |-> "ERROR"]]
    /\ adm.response.statusCode = 200
    /\ stations["KJWY"].notify_on = "error"

(***************************************************************************)
(* C24.  Bootstrap, then login.                                            *)
(***************************************************************************)
\* the last request handled was this action, with a body of these fields
C24_Asked(action) ==
    /\ adm.pc = "done"
    /\ adm.event.method = "POST"
    /\ IsObject(adm.event.body)
    /\ Lower(C22_ActionSent(adm.event)) = action

C24_Sent(field) == Get(json_loads(adm.event.body), field, "")

C24_Answered(action) == adm' # adm /\ C24_Asked(action)'

C24_LoggedIn ==
    /\ adm.response.statusCode = 200
    /\ "token" \in DOMAIN adm.response.body
    /\ verify_session_token(adm.response.body.token, now) = Strip(C24_Sent("username"))

C24_Refused(message) ==
    /\ adm.response = http_response(401, AdminError(message))
    /\ "token" \notin DOMAIN adm.response.body

\* the table holds this password for the user
C24_Holds(table, username, password) ==
    /\ username \in DOMAIN table
    /\ table[username].password_hash =
          password_hash(password, table[username].password_salt,
                        table[username].password_iterations)

\* the administrator of the requests sent, and the password of the bootstrap
C24_Admin == "admin"
C24_First == "StrongPass123!"

C24_BootstrapSucceeded ==
    /\ C24_Asked("bootstrap")
    /\ Strip(C24_Sent("username")) = C24_Admin
    /\ C24_Sent("password") = C24_First
    /\ adm.response.statusCode = 200

C24_Step ==
    /\ (C24_Answered("bootstrap") /\ adm'.response.statusCode = 200)
          => /\ admins = <<>>
             /\ C24_Holds(admins', Strip(C24_Sent("username")'), C24_Sent("password")')
    /\ \A password \in {C24_First, "OtherPass1234!"} :
          (C24_Holds(admins, C24_Admin, password) /\ ~C24_Holds(admins', C24_Admin, password))
              => /\ C24_Answered("confirm_reset")
                 /\ adm'.response.statusCode = 200
    /\ C24_Answered("login")
          => /\ admins' = admins
             /\ IF C24_Sent("password")' = "" \/ Strip(C24_Sent("username")') = ""
                THEN C24_Refused("username and password are required")'
                ELSE IF C24_Holds(admins, Strip(C24_Sent("username")'), C24_Sent("password")')
                THEN C24_LoggedIn'
                ELSE C24_Refused("invalid credentials")'

C24_AfterReset ==
    /\ "admin" \in DOMAIN admins
    /\ C24_Asked("login")
    /\ C24_Sent("username") = C24_Admin
    /\ C24_Sent("password") = C24_First
    /\ C24_Refused("invalid credentials")

(***************************************************************************)
(* C25.  The round trip of a session token.                                *)
(***************************************************************************)
C25_Verified == call.pc = "verified"

C25_Expiry == call.issued_at + call.ttl_minutes * SecondsPerMinute

\* the signature of the token presented is the one of its payload under the
\* secret of the deployment
C25_Signed ==
    /\ Len(call.presented) = 2
    /\ call.presented[2] = b64url_encode(Hmac(token_secret, call.presented[1]))

C25_Inv ==
    C25_Verified =>
        /\ call.exp = C25_Expiry
        /\ (call.presented = call.token /\ call.at < C25_Expiry)
              => call.value = Strip(call.username)
        /\ (call.presented = call.token /\ call.at >= C25_Expiry) => call.value = ""
        /\ Len(call.presented) < 2 => call.value = ""
        /\ ~C25_Signed => call.value = ""

C25_Ended ==
    /\ C25_Verified
    /\ call.username = "admin"
    /\ call.presented = call.token
    /\ call.at = C25_Expiry
    /\ call.ttl_minutes > 0
    /\ call.value = ""

(***************************************************************************)
(* C26.  parse_limit of the history handler.                               *)
(***************************************************************************)
\* the limit is a text that int() reads
C26_Supplied == call.value.present /\ IsInteger(call.value.text)

C26_Inv ==
    call.pc = "answered" =>
        IF C26_Supplied
        THEN LET n == IntOf(call.value.text)
             IN  /\ call.limit \in 1..MaxLimit
                 /\ n < 1 => call.limit = 1
                 /\ n > MaxLimit => call.limit = MaxLimit
                 /\ n \in 1..MaxLimit => call.limit = n
        ELSE call.limit = call.default_value

\* C26: a limit that is missing, empty or no integer yields the default
\* value; an integer limit n yields n when it is within 1..500, 1 when it is
\* below and 500 when it is above, so the result for an integer is always
\* within 1..500.
C26_ParseLimit == []C26_Inv

\* "1000" has given 500
C26_Witness ==
    /\ call.pc = "answered"
    /\ call.value = LimitText("1000")
    /\ call.limit = 500
    /\ call.default_value = 168

\* "0" has given 1, and "bad" the default
C26_Low ==
    /\ call.pc = "answered"
    /\ call.value = LimitText("0")
    /\ call.limit = 1

(***************************************************************************)
(* C27.  One marker for a station and an outcome class.                    *)
(***************************************************************************)
C27_Pair(item) == <<item.station_id, item.alert_type>>

C27_OnePerPair ==
    \A k1, k2 \in DOMAIN alert_state :
        C27_Pair(alert_state[k1]) = C27_Pair(alert_state[k2]) => k1 = k2

C27_Markers(table, pair) == {k \in DOMAIN table : C27_Pair(table[k]) = pair}

C27_Step ==
    /\ \A p \in Slots :
          (inv[p].pc = "update_cooldown" /\ inv'[p].pc = "done")
              => LET pair == <<StationIdOf(inv[p].detail), StatusOf(inv[p].detail)>>
                 IN  /\ Cardinality(C27_Markers(alert_state', pair)) = 1
                     /\ \A k \in C27_Markers(alert_state', pair) :
                           /\ alert_state'[k].last_notified_epoch = now
                           /\ alert_state'[k].expires_at = now + MarkerRetentionSeconds
                           /\ alert_state'[k].cooldown_minutes = inv[p].cooldown_minutes
                     /\ Cardinality(DOMAIN alert_state')
                           = Cardinality(DOMAIN alert_state)
                               + (IF C27_Markers(alert_state, pair) = {} THEN 1 ELSE 0)
    /\ alert_state' # alert_state
          => \E p \in Slots : inv[p].pc = "update_cooldown" /\ inv'[p].pc = "done"

\* C27: the marker table never holds two markers of one station and outcome
\* class; the write that follows a notification leaves exactly one marker of
\* its pair, with the time of the write, the expiry thirty days later and the
\* cooldown of the invocation, and adds an item only when the pair had none,
\* in every interleaving of the invocations.
C27_OneMarkerPerPair == []C27_OnePerPair /\ [][C27_Step]_vars

\* two invocations have notified at the start; the marker of the first has
\* been overwritten by the second half an hour later
C27_Witness ==
    /\ Len(sns) >= 2
    /\ \A n \in 1..Len(sns) : sns[n].at = 0
    /\ Cardinality({p \in Slots : inv[p].pc = "done" /\ "notified" \in DOMAIN inv[p].result}) >= 2
    /\ DOMAIN alert_state = {<<"KJWY", "error">>}
    /\ alert_state[<<"KJWY", "error">>].last_notified_epoch = HalfHour

(***************************************************************************)
(* C28.  The retention of a marker and its cooldown window.                *)
(***************************************************************************)
\* the cooldown window of the marker, by the station's cooldown, is open
C28_WindowOpen(marker) ==
    /\ marker.station_id \in DOMAIN stations
    /\ now - marker.last_notified_epoch
          < stations[marker.station_id].cooldown_minutes * SecondsPerMinute

C28_ThirtyDays ==
    \A k \in DOMAIN alert_state :
        alert_state[k].expires_at
            = alert_state[k].last_notified_epoch + 30 * MinutesPerDay * SecondsPerMinute

C28_Step ==
    \A k \in DOMAIN alert_state :
        k \notin DOMAIN alert_state' => ~C28_WindowOpen(alert_state[k])

\* C28: every marker is written with an expiry thirty days after its
\* last_notified_epoch, whatever the cooldown, and no marker is dropped while
\* the cooldown window of its station is open, so that no event that would be
\* skipped for cooldown is notified because its marker has expired.
C28_RetentionIsHygiene == []C28_ThirtyDays /\ [][C28_Step]_vars

\* the marker of a station with a cooldown of thirty days and an hour has
\* been dropped, and the event notified again within the window
C28_NotifiedInWindow ==
    /\ Len(sns) = 2
    /\ sns[1].at = 0
    /\ sns[2].at = MarkerRetentionSeconds + HalfHour
    /\ stations["KJWY"].cooldown_minutes = 30 * MinutesPerDay + 60

(***************************************************************************)
(* C29.  Invocations for different stations.                               *)
(***************************************************************************)
C29_Key(slot) == <<StationIdOf(slot.detail), StatusOf(slot.detail)>>

\* the table holds a marker of the pair whose window, by this cooldown, is open
C29_OwnWindowOpen(key, cooldown_minutes) ==
    /\ key \in DOMAIN alert_state
    /\ now - alert_state[key].last_notified_epoch < cooldown_minutes * SecondsPerMinute

C29_Step ==
    \A p \in Slots :
        inv'[p] # inv[p] =>
            LET key == C29_Key(inv'[p])
                own == stations[key[1]]
            IN  /\ UNCHANGED <<stations, owners>>
                /\ \A k \in DOMAIN alert_state \cup DOMAIN alert_state' :
                      k[1] # key[1]
                          => /\ k \in DOMAIN alert_state
                             /\ k \in DOMAIN alert_state'
                             /\ alert_state'[k] = alert_state[k]
                /\ inv[p].pc = "in_cooldown"
                      => IF C29_OwnWindowOpen(key, own.cooldown_minutes)
                         THEN inv'[p].pc = "done" /\ inv'[p].result = Skipped("cooldown")
                         ELSE inv'[p].pc = "publish"
                /\ inv[p].pc = "update_cooldown"
                      => /\ alert_state'[key]
                               = MarkerItem(key[1], key[2], own.cooldown_minutes, now)
                         /\ inv'[p].result = Notified(key[1], own.owner_id)

\* an event is skipped for cooldown only after a notification for its own
\* station and status, within the cooldown of its own station
C29_OwnCooldownOnly ==
    \A p \in Slots :
        (inv[p].pc = "done" /\ inv[p].result = Skipped("cooldown"))
            => \E n \in 1..Len(sns) :
                  /\ sns[n].station_id = C29_Key(inv[p])[1]
                  /\ sns[n].status = C29_Key(inv[p])[2]

\* C29: with the events of two stations handled in any interleaving, a step
\* of an invocation changes no marker of another station and no station or
\* owner; its cooldown check is decided by the marker of its own station and
\* status and the cooldown of its own station; the marker it writes and the
\* result it returns are those of its own station; an event is skipped for
\* cooldown only after a notification for its own station and status.
C29_IndependentStations == [][C29_Step]_vars /\ []C29_OwnCooldownOnly

\* both events were checked before either marker was written, both were
\* notified, and each marker has the cooldown of its own station
C29_Witness ==
    /\ inv[1].pc = "done" /\ inv[1].result = Notified("KJWY", "o1")
    /\ inv[2].pc = "done" /\ inv[2].result = Notified("KSLC", "o1")
    /\ Len(sns) = 2
    /\ sns[1].station_id = "KSLC" /\ sns[2].station_id = "KJWY"
    /\ alert_state[<<"KJWY", "error">>].cooldown_minutes = 60
    /\ alert_state[<<"KSLC", "error">>].cooldown_minutes = 30
    /\ alert_state[<<"KJWY", "error">>].last_notified_epoch
          < alert_state[<<"KSLC", "error">>].last_notified_epoch

\* the first station is in its cooldown while the second is notified again
C29_OneSuppressed ==
    /\ inv[1].pc = "done" /\ inv[1].result = Skipped("cooldown")
    /\ inv[2].pc = "done" /\ inv[2].result = Notified("KSLC", "o1")
    /\ now = HalfHour
    /\ alert_state[<<"KSLC", "error">>].last_notified_epoch = HalfHour

(***************************************************************************)
(* C30.  A cooldown of zero or of a negative number of minutes.            *)
(***************************************************************************)
C30_Key(slot) == <<StationIdOf(slot.detail), StatusOf(slot.detail)>>

C30_Step ==
    \A p \in Slots :
        (inv'[p] # inv[p] /\ stations["KJWY"].cooldown_minutes <= 0) =>
            LET key == C30_Key(inv[p])
            IN  /\ inv[p].pc = "in_cooldown"
                      => /\ inv[p].cooldown_minutes = stations["KJWY"].cooldown_minutes
                         /\ inv'[p].pc = "publish"
                /\ inv[p].pc = "update_cooldown"
                      => /\ alert_state'[key]
                               = MarkerItem(key[1], key[2],
                                            stations["KJWY"].cooldown_minutes, now)
                         /\ DOMAIN alert_state' = DOMAIN alert_state \cup {key}
                         /\ inv'[p].result = Notified(key[1], "o1")

C30_NeverSuppressed ==
    \A p \in Slots :
        /\ inv[p].pc = "done" => inv[p].result = Notified("KJWY", "o1")
        /\ inv[p].pc = "failed" => inv[p].calls[Len(inv[p].calls)] = <<"publish_owner_topic", "raised">>

\* C30: for a station whose cooldown_minutes is zero or negative, the
\* cooldown check of every event that reaches it goes on to the publish,
\* whatever marker the table holds, so no event is skipped for cooldown and
\* every invocation ends notified unless the publish itself raises; every
\* notification rewrites the one marker of its pair with the current time.
C30_NoCooldownNeverSuppresses == [][C30_Step]_vars /\ []C30_NeverSuppressed

\* one invocation notified twice for the same station and status at the
\* same clock reading, the second time with the marker of the first in place
C30_Witness ==
    /\ stations["KJWY"].cooldown_minutes <= 0
    /\ now = 0
    /\ Len(sns) = 2
    /\ sns[1].status = "error" /\ sns[2].status = "error"
    /\ inv[1].pc = "done" /\ inv[1].result = Notified("KJWY", "o1")
    /\ inv[2] = Idle
    /\ alert_state[<<"KJWY", "error">>].last_notified_epoch = 0
    /\ alert_state[<<"KJWY", "error">>].cooldown_minutes
          = stations["KJWY"].cooldown_minutes

(***************************************************************************)
(* C31.  Bootstrap requests, in sequence and interleaved.                  *)
(***************************************************************************)
C31_Succeeded(i) ==
    /\ adm[i].pc = "done"
    /\ "ok" \in DOMAIN adm[i].result

C31_Step ==
    /\ admins # <<>> => admins' = admins
    /\ \A i \in BootstrapInvocations :
          (adm'[i] # adm[i] /\ adm'[i].pc = "done" /\ admins # <<>>)
              => adm'[i].result = AdminError("admin user already exists")

C31_AtMostOne ==
    \A i, j \in BootstrapInvocations :
        (C31_Succeeded(i) /\ C31_Succeeded(j)) => i = j

\* C31: under any sequence or interleaving of bootstrap requests, once an
\* admin record exists no step changes the admin store and every bootstrap
\* that returns, returns the error "admin user already exists"; two
\* invocations never both hold the result of a bootstrap that succeeded.
C31_BootstrapExclusive == [][C31_Step]_vars /\ []C31_AtMostOne

\* bootstrap requests handled one at a time: the first succeeded, the second
\* was refused and the store holds the administrator of the first
C31_SecondRefused ==
    /\ C31_Succeeded(1)
    /\ adm[2].pc = "done"
    /\ adm[2].result = AdminError("admin user already exists")
    /\ DOMAIN admins = {"admin"}

\* two interleaved bootstrap requests both succeeded and the store holds
\* two administrators
C31_TwoAdministrators ==
    /\ C31_Succeeded(1)
    /\ C31_Succeeded(2)
    /\ DOMAIN admins = {"admin", "root"}

====
